---- MODULE Spec2Model ----
(***************************************************************************)
(* A model of grafana-simple-json-go: the handlers of the Handler type     *)
(* (/, /query, /annotations, /search, /tag-keys, /tag-values), the table   *)
(* and annotation encoders, the time and duration codecs, and the SJC      *)
(* handlers with their basic-auth check and CORS headers.                  *)
(*                                                                         *)
(* An instant (Go time.Time) is an integer: nanoseconds since the Unix     *)
(* epoch.  time.Time.UnixNano returns an int64 and wraps for an instant    *)
(* outside it; the model keeps that wrap at a width of NanoBits bits, so   *)
(* that the instants fit the checker's integers.                           *)
(***************************************************************************)
EXTENDS Integers, Sequences, FiniteSets, TLC

VARIABLES cfg, pc, wire, req, k, out, calls, rets, status, body,
          creds, http, hdrs, steps, writes, codecIn, codecOut, twin, duo

vars == <<cfg, pc, wire, req, k, out, calls, rets, status, body,
          creds, http, hdrs, steps, writes, codecIn, codecOut, twin, duo>>

\* What a handler leaves alone once it has taken the request in: the
\* configured credentials, the request line and headers, the response headers
\* and the steps taken before the body was decoded.
exchange == <<creds, http, hdrs, steps>>

\* The argument and the result of a codec applied on its own.
codec == <<codecIn, codecOut>>

\* The request that was served before this one, and two requests that are
\* served at the same time.
aside == <<twin, duo>>

(***************************************************************************)
(* Bounds of the model.                                                    *)
(***************************************************************************)
NanoBits == 24
MaxTargets == 2
MaxPoints == 3
MaxCols == 3
MaxRows == 2
MaxAnns == 2
CodecSpan == 12

(***************************************************************************)
(* Integers and instants.                                                  *)
(***************************************************************************)
RECURSIVE Pow2(_)
Pow2(n) == IF n = 0 THEN 1 ELSE 2 * Pow2(n - 1)

MinNano == 0 - Pow2(NanoBits - 1)
MaxNano == Pow2(NanoBits - 1) - 1

\* Two's complement wrap of an integer into the width of UnixNano's result.
WrapInt(x) == ((x - MinNano) % Pow2(NanoBits)) + MinNano

\* Go's integer division truncates toward zero.
GoDiv(a, b) == IF a >= 0 THEN a \div b ELSE 0 - ((0 - a) \div b)

NanosPerMilli == 1000000
NanosPerSecond == NanosPerMilli * 1000

\* The zero time.Time (January 1, year 1) lies far before every other instant.
ZeroTime == 0 - 4 * Pow2(NanoBits)

\* A test against the Unix epoch instead of the zero time.Time.
IsZeroEpoch(t) == t = 0

\* time.Time.IsZero, as HandleAnnotations asks it of TimeEnd.
IsZero(t) == t = ZeroTime

Before(t, u) == t < u

UnixNano(t) == WrapInt(t)

\* simpleJSONPTime.MarshalJSON: milliseconds since the epoch.
PTimeMarshal(t) == GoDiv(UnixNano(t), NanosPerMilli)

\* simpleJSONDataPoint.MarshalJSON: the pair [value, time in ms].
DataPointMarshal(dp) == <<dp.Value, PTimeMarshal(dp.Time)>>

\* time.Time's JSON form, the RFC3339 string with nanoseconds: whole seconds
\* and the fraction of a second (UTC).
RFC3339Nano(t) == [fmt |-> "rfc3339", sec |-> t \div NanosPerSecond, nsec |-> t % NanosPerSecond]

\* simpleJSONPTime.UnmarshalJSON: time.Unix(0, in*1000000), an int64 product.
PTimeUnmarshal(ms) == WrapInt(ms * NanosPerMilli)

(***************************************************************************)
(* simpleJSONTime.  A time.Time carries a zone: zt.inst is the instant and *)
(* zt.off the zone's offset east of UTC, in seconds.  An RFC3339 string is *)
(* its fields: the date and time of the wall clock (sec, counted in        *)
(* seconds as a Unix time would be, and nsec) and the zone in minutes.     *)
(***************************************************************************)
UTC(t) == [inst |-> t, off |-> 0]

\* time.Time.Format(time.RFC3339Nano): the wall clock is the instant plus the
\* whole offset, and the layout's "Z07:00" prints the offset's hours and
\* minutes only.
FormatRFC3339Nano(zt) ==
    [fmt |-> "rfc3339",
     sec |-> (zt.inst \div NanosPerSecond) + zt.off,
     nsec |-> zt.inst % NanosPerSecond,
     zone |-> GoDiv(zt.off, 60)]

GarbageString == [fmt |-> "garbage", sec |-> 0, nsec |-> 0, zone |-> 0]

\* A JSON string, and a JSON value that is not a string.
JString(v) == [j |-> "string", v |-> v]

JNumber(v) == [j |-> "number", v |-> v]

\* simpleJSONTime.MarshalJSON
TimeMarshal(zt) == JString(FormatRFC3339Nano(zt))

\* time.Parse(time.RFC3339Nano, in)
ParseRFC3339Nano(in) ==
    IF in.fmt # "rfc3339"
    THEN [err |-> TRUE, t |-> UTC(0)]
    ELSE [err |-> FALSE,
          t |-> [inst |-> (in.sec - in.zone * 60) * NanosPerSecond + in.nsec,
                 off |-> in.zone * 60]]

\* simpleJSONTime.UnmarshalJSON: the JSON value must be a string, and the
\* string must parse.
TimeUnmarshal(js) ==
    IF js.j # "string" THEN [err |-> TRUE, t |-> UTC(0)] ELSE ParseRFC3339Nano(js.v)

(***************************************************************************)
(* simpleJSONDuration.UnmarshalJSON: time.ParseDuration of a JSON string.  *)
(* A string is a sequence of characters; the duration is counted in        *)
(* milliseconds, and the units below a millisecond are left out.           *)
(***************************************************************************)
DigitVal == ("0" :> 0) @@ ("1" :> 1) @@ ("3" :> 3) @@ ("5" :> 5)

IsDigit(c) == c \in DOMAIN DigitVal

unitMap == ("ms" :> 1) @@ ("s" :> 1000) @@ ("m" :> 60000) @@ ("h" :> 3600000)

UnitOf(u) ==
    IF Len(u) = 1 /\ u[1] \in DOMAIN unitMap THEN <<u[1]>>
    ELSE IF u = <<"m", "s">> THEN <<"ms">> ELSE <<>>

\* leadingInt: the digits from position i on, and the position after them.
RECURSIVE leadingInt(_, _, _)
leadingInt(s, i, x) ==
    IF i <= Len(s) /\ IsDigit(s[i])
    THEN leadingInt(s, i + 1, x * 10 + DigitVal[s[i]])
    ELSE [x |-> x, i |-> i]

\* leadingFraction: the digits after the point, and their scale.
RECURSIVE leadingFraction(_, _, _, _)
leadingFraction(s, i, x, scale) ==
    IF i <= Len(s) /\ IsDigit(s[i])
    THEN leadingFraction(s, i + 1, x * 10 + DigitVal[s[i]], scale * 10)
    ELSE [x |-> x, scale |-> scale, i |-> i]

\* The unit runs up to the next point or digit.
RECURSIVE unitEnd(_, _)
unitEnd(s, i) ==
    IF i <= Len(s) /\ s[i] # "." /\ ~IsDigit(s[i]) THEN unitEnd(s, i + 1) ELSE i

DurationError == [err |-> TRUE, d |-> 0]

\* The loop of time.ParseDuration over the terms [0-9]*(\.[0-9]*)?[a-z]+ .
RECURSIVE parseTerms(_, _, _)
parseTerms(s, i, d) ==
    IF i > Len(s)
    THEN [err |-> FALSE, d |-> d]
    ELSE IF ~(s[i] = "." \/ IsDigit(s[i]))
    THEN DurationError
    ELSE LET v == leadingInt(s, i, 0)
             pre == v.i # i
             point == v.i <= Len(s) /\ s[v.i] = "."
             f == IF point THEN leadingFraction(s, v.i + 1, 0, 1)
                  ELSE [x |-> 0, scale |-> 1, i |-> v.i]
             post == point /\ f.i # v.i + 1
             e == unitEnd(s, f.i)
             u == UnitOf(SubSeq(s, f.i, e - 1))
         IN  IF ~pre /\ ~post
             THEN DurationError
             ELSE IF e = f.i \/ u = <<>>
             THEN DurationError
             ELSE parseTerms(s, e, d + v.x * unitMap[u[1]] + (f.x * unitMap[u[1]]) \div f.scale)

ParseDuration(s) ==
    LET signed == s # <<>> /\ s[1] \in {"-", "+"}
        rest == IF signed THEN Tail(s) ELSE s
        r == parseTerms(rest, 1, 0)
    IN  IF rest = <<"0">> THEN [err |-> FALSE, d |-> 0]
        ELSE IF rest = <<>> \/ r.err THEN DurationError
        ELSE [err |-> FALSE, d |-> IF signed /\ s[1] = "-" THEN 0 - r.d ELSE r.d]

\* simpleJSONDuration.UnmarshalJSON: js.v is the string's characters.
DurationUnmarshal(js) ==
    IF js.j # "string" THEN DurationError ELSE ParseDuration(js.v)

(***************************************************************************)
(* JSON values: a nil slice marshals as null, any other slice as an array. *)
(***************************************************************************)
JNull == [j |-> "null", elems |-> <<>>]

JArray(s) == [j |-> "array", elems |-> s]

MarshalSlice(isNil, s) == IF isNil THEN JNull ELSE JArray(s)

SeqsUpTo(S, n) == UNION {[1..m -> S] : m \in 0..n}

(***************************************************************************)
(* sort.Slice(resp, Before): the result is a permutation of resp ordered   *)
(* by Before; the sort is not stable, so equal instants may come out in    *)
(* any order.                                                              *)
(***************************************************************************)
Perms(n) == {p \in [1..n -> 1..n] : \A i, j \in 1..n : i # j => p[i] # p[j]}

SortSliceNone(s) == {s}

SortSlice(s) ==
    {[i \in 1..Len(s) |-> s[p[i]]] : p \in
        {q \in Perms(Len(s)) : \A i, j \in 1..Len(s) : i < j => ~Before(s[q[j]].Time, s[q[i]].Time)}}

(***************************************************************************)
(* The request envelope of /query as it is on the wire, and as decoded     *)
(* into simpleJSONQuery: a target whose type field is absent decodes to    *)
(* the empty string.                                                       *)
(***************************************************************************)
TargetNames == {"a", "b"}

KnownTypes == {"", "timeserie", "table"}

WireTargets ==
    [target : TargetNames, hasType : {TRUE}, type : KnownTypes \cup {"bogus"},
     refId : {"A"}, hide : {FALSE}]
        \cup [target : TargetNames, hasType : {FALSE}, type : {""}, refId : {"A"}, hide : {FALSE}]

\* Targets that the panel hides, under another refId.
HiddenTargets ==
    [target : {"a"}, hasType : {TRUE}, type : {"table"}, refId : {"B"}, hide : {TRUE}]
        \cup [target : {"a"}, hasType : {FALSE}, type : {""}, refId : {"B"}, hide : {TRUE}]

DecodeTarget(w) ==
    [Target |-> w.target, RefID |-> w.refId, Hide |-> w.hide,
     Type |-> IF w.hasType THEN w.type ELSE ""]

\* The rest of an envelope: whether the body is well-formed JSON, and its
\* range.from, range.to and interval fields.
GoodFrom == TimeMarshal(UTC(1000000))

GoodTo == TimeMarshal(UTC(3000000))

Interval30s == JString(<<"3", "0", "s">>)

NoRawRange == [from |-> "", to |-> ""]

GoodFrame ==
    [json |-> "ok", from |-> GoodFrom, to |-> GoodTo, interval |-> Interval30s,
     maxDataPoints |-> 550, adhocFilters |-> <<>>, panelId |-> 1, format |-> "json",
     intervalMs |-> 30000, rangeRaw |-> [from |-> "now-1h", to |-> "now"]]

BadFrames ==
    { [GoodFrame EXCEPT !.json = "malformed"],
      [GoodFrame EXCEPT !.from = JString(GarbageString)],
      [GoodFrame EXCEPT !.to = JNumber(GarbageString)],
      [GoodFrame EXCEPT !.interval = JString(<<"3", "0">>)],
      [GoodFrame EXCEPT !.interval = JNumber(<<>>)] }

\* An interval with a fractional magnitude, one and a half seconds.
FractionFrame == [GoodFrame EXCEPT !.interval = JString(<<"1", ".", "5", "s">>)]

\* A range whose from is later than its to.
ReversedFrame == [GoodFrame EXCEPT !.from = GoodTo, !.to = GoodFrom]

\* An envelope with one adhoc filter and another maxDataPoints.
HostFilter == [key |-> "host", operator |-> "=", value |-> "web1"]

FilterFrame == [GoodFrame EXCEPT !.adhocFilters = <<HostFilter>>, !.maxDataPoints = 100]

\* An envelope of another panel: panelId, format, intervalMs and rangeRaw
\* differ from those of GoodFrame.
PanelFrame ==
    [GoodFrame EXCEPT !.panelId = 2, !.format = "table", !.intervalMs = 1,
                      !.rangeRaw = [from |-> "now-6h", to |-> "now-1h"]]

QueryFrames == {GoodFrame, FractionFrame, ReversedFrame, FilterFrame, PanelFrame} \cup BadFrames

\* A request body: the targets of a /query envelope, the annotation query of
\* an /annotations envelope, the target of a /search body and the key of a
\* /tag-values body.
NoWire == [targets |-> <<>>, annotation |-> "", frame |-> GoodFrame, target |-> "", key |-> ""]

QueryBody(targets, f) == [NoWire EXCEPT !.targets = targets, !.frame = f]

NoReq ==
    [route |-> "none", Targets |-> <<>>, Annotation |-> "",
     From |-> UTC(0), To |-> UTC(0), Interval |-> 0, Target |-> "", Key |-> "",
     MaxDataPoints |-> 0, AdhocFilters |-> <<>>, PanelID |-> 0, Format |-> "",
     IntervalMS |-> 0, RangeRaw |-> NoRawRange]

\* What dec.Decode(&req) returns for a simpleJSONQuery: the error of the JSON
\* syntax or of a field's UnmarshalJSON.
QueryDecodeError(w) ==
    \/ w.frame.json # "ok"
    \/ TimeUnmarshal(w.frame.from).err
    \/ TimeUnmarshal(w.frame.to).err
    \/ DurationUnmarshal(w.frame.interval).err

\* A decoder that leaves out the targets the panel hides.
DecodeQueryShown(w) ==
    [NoReq EXCEPT !.route = "query",
                  !.Targets = SelectSeq([i \in 1..Len(w.targets) |-> DecodeTarget(w.targets[i])],
                                        LAMBDA t : ~t.Hide),
                  !.From = TimeUnmarshal(w.frame.from).t,
                  !.To = TimeUnmarshal(w.frame.to).t,
                  !.Interval = DurationUnmarshal(w.frame.interval).d,
                  !.MaxDataPoints = w.frame.maxDataPoints,
                  !.AdhocFilters = w.frame.adhocFilters,
                  !.PanelID = w.frame.panelId,
                  !.Format = w.frame.format,
                  !.IntervalMS = w.frame.intervalMs,
                  !.RangeRaw = w.frame.rangeRaw]

DecodeQuery(w) ==
    [NoReq EXCEPT !.route = "query",
                  !.Targets = [i \in 1..Len(w.targets) |-> DecodeTarget(w.targets[i])],
                  !.From = TimeUnmarshal(w.frame.from).t,
                  !.To = TimeUnmarshal(w.frame.to).t,
                  !.Interval = DurationUnmarshal(w.frame.interval).d,
                  !.MaxDataPoints = w.frame.maxDataPoints,
                  !.AdhocFilters = w.frame.adhocFilters,
                  !.PanelID = w.frame.panelId,
                  !.Format = w.frame.format,
                  !.IntervalMS = w.frame.intervalMs,
                  !.RangeRaw = w.frame.rangeRaw]

\* The envelopes of each specification.
Envelopes == SeqsUpTo(WireTargets, MaxTargets)

SeriesEnvelopes == {<<w>> : w \in {x \in WireTargets : DecodeTarget(x).Type \in {"", "timeserie"}}}

TableEnvelopes == {<<w>> : w \in {x \in WireTargets : x.type = "table" /\ x.target = "a"}}

(***************************************************************************)
(* What the collaborators may return.                                      *)
(***************************************************************************)
FarFuture == MaxNano + 1500001

DPTimes == {0 - 1500000, 1500000, 1999999, FarFuture}

DataPoints == [Time : DPTimes, Value : {1, 2}]

QuerierReturns(dps) == {[err |-> TRUE, dps |-> <<>>]} \cup {[err |-> FALSE, dps |-> d] : d \in dps}

AllSeries == SeqsUpTo(DataPoints, MaxPoints)

FewSeries ==
    {<<>>, <<[Time |-> 1999999, Value |-> 1], [Time |-> 0 - 1500000, Value |-> 2]>>}

\* Columns of every kind and of every length up to MaxRows: a NumberColumn
\* 1, 2, ..., a StringColumn, a TimeColumn, and a column whose Data is nil.
NumberColumns == {[kind |-> "number", vals |-> [i \in 1..n |-> i]] : n \in 0..MaxRows}

StringColumns == {[kind |-> "string", vals |-> [i \in 1..n |-> "x"]] : n \in 0..MaxRows}

TimeColumns == {[kind |-> "time", vals |-> [i \in 1..n |-> i * 1500000]] : n \in 0..MaxRows}

NilColumn == [kind |-> "nil", vals |-> <<>>]

TableColumns ==
    [Text : {"p", "q"}, Data : NumberColumns]
        \cup [Text : {"q"}, Data : StringColumns]
        \cup [Text : {"p"}, Data : TimeColumns \cup {NilColumn}]

TablerReturns(tabs) == {[err |-> TRUE, cols |-> <<>>]} \cup {[err |-> FALSE, cols |-> c] : c \in tabs}

AllTables == SeqsUpTo(TableColumns, MaxCols)

FewTables ==
    { <<[Text |-> "p", Data |-> [kind |-> "time", vals |-> <<1500000>>]],
        [Text |-> "q", Data |-> [kind |-> "number", vals |-> <<1>>]]>>,
      <<[Text |-> "p", Data |-> [kind |-> "number", vals |-> <<1>>]],
        [Text |-> "q", Data |-> [kind |-> "number", vals |-> <<1, 2>>]]>>,
      <<[Text |-> "p", Data |-> NilColumn]>> }

(***************************************************************************)
(* Responses.                                                              *)
(***************************************************************************)
NoBody == [ctype |-> "", text |-> "", json |-> JNull]

\* w.Write of a text: the content type is found by sniffing.
TextBody(text) == [ctype |-> "text/plain", text |-> text, json |-> JNull]

\* One write to the response: through http.Error, or through w.Write.
ByError(b) == [via |-> "http.Error", body |-> b]

ByWrite(b) == [via |-> "Write", body |-> b]

\* http.Error(w, msg, code): a text body.
ErrorBody(msg) == [ctype |-> "text/plain", text |-> msg, json |-> JNull]

JSONBody(v) == [ctype |-> "application/json", text |-> "", json |-> v]

ErrCollaborator == "collaborator error"
ErrDecode == "decode error"
ErrFileNotFound == "File not found"
ErrInvalidColumn == "invlalid column type"
ErrColumnLength == "all columns must be of equal length"
ErrUnknownType == "unknown query type, timeserie or table"
ErrNoQuerier == "timeserie query not implemented"
ErrNoTabler == "table query not implemented"
ErrNotFound == "Not Found"
ErrPanic == "index out of range"

(***************************************************************************)
(* jsonQuery: the collaborator's points, sorted, as simpleJSONData.        *)
(* `sorted` is the order sort.Slice left the points in.                    *)
(***************************************************************************)
\* A loop that stops one point early.
jsonQueryShort(ret, target, sorted) ==
    IF ret.err
    THEN [err |-> ErrCollaborator, panic |-> FALSE, res |-> <<>>]
    ELSE [err |-> "", panic |-> FALSE,
          res |-> [kind |-> "data", Target |-> target.Target,
                   DataPoints |-> SubSeq(sorted, 1, Len(sorted) - 1)]]

jsonQuery(ret, target, sorted) ==
    IF ret.err
    THEN [err |-> ErrCollaborator, panic |-> FALSE, res |-> <<>>]
    ELSE [err |-> "", panic |-> FALSE,
          res |-> [kind |-> "data", Target |-> target.Target, DataPoints |-> sorted]]

\* json.Marshal of a simpleJSONData: DataPoints is nil when nothing was appended.
MarshalData(d) ==
    [target |-> d.Target,
     datapoints |-> MarshalSlice(d.DataPoints = <<>>,
                        [i \in 1..Len(d.DataPoints) |-> DataPointMarshal(d.DataPoints[i])])]

(***************************************************************************)
(* jsonTableQuery.  ScanColumns is its first loop: the type switch and the *)
(* length check of each column in turn, rowCount starting at 0.            *)
(***************************************************************************)
\* A type switch with no default case.
ColumnTypesAny == {"number", "string", "time", "nil"}

\* The cases of the type switch on cv.Data.
ColumnTypes == {"number", "string", "time"}

RECURSIVE ScanColumns(_, _, _, _)
ScanColumns(resp, j, rowCount, cols) ==
    IF j > Len(resp)
    THEN [err |-> "", rowCount |-> rowCount, cols |-> cols]
    ELSE LET cv == resp[j]
             dataLen == Len(cv.Data.vals)
             rc == IF rowCount = 0 THEN dataLen ELSE rowCount
         IN  IF cv.Data.kind \notin ColumnTypes
             THEN [err |-> ErrInvalidColumn, rowCount |-> rowCount, cols |-> cols]
             ELSE IF dataLen # rc
                  THEN [err |-> ErrColumnLength, rowCount |-> rc, cols |-> cols]
                  ELSE ScanColumns(resp, j + 1, rc,
                                   Append(cols, [Text |-> cv.Text, Type |-> cv.Data.kind]))

\* rows[i][j] = data[i]: the cell keeps its Go type.
TableRows(resp, rowCount) ==
    [i \in 1..rowCount |->
        [j \in 1..Len(resp) |-> [kind |-> resp[j].Data.kind, v |-> resp[j].Data.vals[i]]]]

jsonTableQuery(ret) ==
    IF ret.err
    THEN [err |-> ErrCollaborator, panic |-> FALSE, res |-> <<>>]
    ELSE LET scan == ScanColumns(ret.cols, 1, 0, <<>>)
         IN  IF scan.err # ""
             THEN [err |-> scan.err, panic |-> FALSE, res |-> <<>>]
             ELSE IF \E j \in 1..Len(ret.cols) : Len(ret.cols[j].Data.vals) < scan.rowCount
                  THEN \* data[i] with i past the end of a shorter column
                       [err |-> ErrPanic, panic |-> TRUE, res |-> <<>>]
                  ELSE [err |-> "", panic |-> FALSE,
                        res |-> [kind |-> "table", Type |-> "table", Columns |-> scan.cols,
                                 Rows |-> TableRows(ret.cols, scan.rowCount)]]

\* json.Marshal of a cell: a float64, a string, or a time.Time in its RFC3339 form.
MarshalCellMillis(c) ==
    IF c.kind = "time" THEN [j |-> "number", v |-> PTimeMarshal(c.v)]
    ELSE [j |-> c.kind, v |-> c.v]

MarshalCell(c) ==
    IF c.kind = "time" THEN [j |-> "string", v |-> RFC3339Nano(c.v)]
    ELSE [j |-> c.kind, v |-> c.v]

MarshalColumn(c) == [text |-> c.Text, type |-> c.Type]

MarshalRow(r) == JArray([j \in 1..Len(r) |-> MarshalCell(r[j])])

\* json.Marshal of a simpleJSONTableData: Columns is nil when there is no
\* column, Rows was made and is never nil.
MarshalTable(t) ==
    [type |-> t.Type,
     columns |-> MarshalSlice(t.Columns = <<>>,
                     [j \in 1..Len(t.Columns) |-> MarshalColumn(t.Columns[j])]),
     rows |-> JArray([i \in 1..Len(t.Rows) |-> MarshalRow(t.Rows[i])])]

MarshalResult(r) == IF r.kind = "table" THEN MarshalTable(r) ELSE MarshalData(r)

(***************************************************************************)
(* Annotations.                                                            *)
(***************************************************************************)
AnnotationQueries == {"#deploy"}

Annotations ==
    [Time : {1500000, 2500000}, TimeEnd : {ZeroTime, 3500000},
     Title : {"t1", "t2"}, Text : {"x"}, Tags : {<<>>, <<"outage">>}]

AnnotatorReturns == {[err |-> TRUE, anns |-> <<>>]}
    \cup {[err |-> FALSE, anns |-> a] : a \in SeqsUpTo(Annotations, MaxAnns)}

\* The loop of HandleAnnotations from annotation i on (i counts from 1 here,
\* and the code's index, which is the RegionID, from 0).
RECURSIVE ExpandAnnotations(_, _, _, _)
ExpandAnnotations(annotation, anns, i, resp) ==
    IF i > Len(anns)
    THEN resp
    ELSE LET startAnn == [ReqAnnotation |-> annotation, Time |-> anns[i].Time,
                          RegionID |-> IF ~IsZero(anns[i].TimeEnd) THEN i - 1 ELSE 0,
                          Title |-> anns[i].Title, Text |-> anns[i].Text, Tags |-> anns[i].Tags]
             endAnn == [ReqAnnotation |-> annotation, Time |-> anns[i].TimeEnd,
                        RegionID |-> i - 1,
                        Title |-> anns[i].Title, Text |-> anns[i].Text, Tags |-> anns[i].Tags]
         IN  ExpandAnnotations(annotation, anns, i + 1,
                 IF ~IsZero(anns[i].TimeEnd)
                 THEN Append(Append(resp, startAnn), endAnn)
                 ELSE Append(resp, startAnn))

\* json.Marshal of a simpleJSONAnnotationResponse: regionId is `omitempty`,
\* so the field is left out when RegionID is 0.  An absent field is <<>>.
MarshalAnnotation(r) ==
    [annotation |-> r.ReqAnnotation, time |-> PTimeMarshal(r.Time),
     regionId |-> IF r.RegionID # 0 THEN <<r.RegionID>> ELSE <<>>,
     title |-> r.Title, text |-> r.Text, tags |-> r.Tags]

\* json.Marshal(resp): resp is made empty, never nil.
MarshalAnnotations(resp) == JArray([i \in 1..Len(resp) |-> MarshalAnnotation(resp[i])])

(***************************************************************************)
(* Search and tag collaborators.  A []string is nil or not; tag keys are   *)
(* StringTagKeys and tag values StringTagValues.                           *)
(***************************************************************************)
SearchTargets == {"up"}

SearchReturns ==
    {[collab |-> "search", err |-> TRUE, isNil |-> TRUE, vals |-> <<>>]}
        \cup {[collab |-> "search", err |-> FALSE, isNil |-> FALSE, vals |-> v] :
                 v \in {<<>>, <<"a">>, <<"b", "a">>}}
        \cup {[collab |-> "search", err |-> FALSE, isNil |-> TRUE, vals |-> <<>>]}

TagKeysReturns ==
    {[collab |-> "tagKeys", err |-> TRUE, isNil |-> TRUE, vals |-> <<>>]}
        \cup {[collab |-> "tagKeys", err |-> FALSE, isNil |-> FALSE, vals |-> v] :
                 v \in {<<>>, <<"host">>, <<"host", "dc">>}}

TagKeyNames == {"host"}

TagValuesReturns ==
    {[collab |-> "tagValues", err |-> TRUE, isNil |-> TRUE, vals |-> <<>>]}
        \cup {[collab |-> "tagValues", err |-> FALSE, isNil |-> FALSE, vals |-> v] :
                 v \in {<<>>, <<"h1">>, <<"h2", "h1">>}}

\* A key whose name and type changed places.
MarshalTagKeySwapped(tag) == [type |-> tag, text |-> "string"]

\* simpleJSONQueryAdhocKey of a StringTagKey: tagType() is "string".
MarshalTagKey(tag) == [type |-> "string", text |-> tag]

\* StringTagValue.tagValue()
MarshalTagValue(val) == [text |-> val]

(***************************************************************************)
(* The state after New(opts...): the collaborators that were set, and no   *)
(* request yet.                                                            *)
(***************************************************************************)
Collaborators == {"query", "tableQuery", "annotations", "search", "tags"}

NoCreds == [user |-> <<>>, pass |-> <<>>]

NoHTTP == [method |-> "", path |-> "", auth |-> <<>>]

Post(path) == [method |-> "POST", path |-> path, auth |-> <<>>]

NoCodecIn == [codec |-> "none", t |-> UTC(0), s |-> <<>>]

NoCodecOut == [done |-> FALSE, err |-> FALSE, t |-> UTC(0), d |-> 0]

\* No request was served before.
NoTwin ==
    [seen |-> FALSE, wire |-> NoWire, calls |-> <<>>, rets |-> <<>>, status |-> 0, body |-> NoBody]

\* No two requests at the same time.
NoDuo == [on |-> FALSE]

\* One request at a time, and none before it.
Alone == twin = NoTwin /\ duo = NoDuo

\* No request yet.
Idle ==
    /\ pc = "idle"
    /\ wire = NoWire
    /\ req = NoReq
    /\ k = 0
    /\ out = <<>>
    /\ calls = <<>>
    /\ rets = <<>>
    /\ status = 0
    /\ body = NoBody
    /\ http = NoHTTP
    /\ hdrs = {}
    /\ steps = <<>>
    /\ writes = <<>>

InitWith(cfgs) ==
    /\ cfg \in cfgs
    /\ creds = NoCreds
    /\ codecIn = NoCodecIn
    /\ codecOut = NoCodecOut
    /\ Idle
    /\ Alone

Init == InitWith(SUBSET Collaborators)

(***************************************************************************)
(* HandleRoot: http.Error for a path other than "/" is not followed by a   *)
(* return, so that "OK" is written after it.                               *)
(***************************************************************************)
Paths == {"/", "/favicon.ico", "/metrics"}

RootStatusOK(path) == 200

\* The status of the response: that of http.Error when it was called, else
\* the 200 of the first Write.
RootStatus(path) == IF path # "/" THEN 404 ELSE 200

RootWrites(path) ==
    IF path # "/"
    THEN <<ByError(ErrorBody(ErrFileNotFound)), ByWrite(TextBody("OK"))>>
    ELSE <<ByWrite(TextBody("OK"))>>

RootBody(path) == TextBody(IF path # "/" THEN "File not found\nOK" ELSE "OK")

HandleRoot ==
    /\ pc = "idle"
    /\ \E path \in Paths, method \in {"GET", "POST"} :
        /\ http' = [method |-> method, path |-> path, auth |-> <<>>]
        /\ status' = RootStatus(path)
        /\ body' = RootBody(path)
        /\ writes' = RootWrites(path)
    /\ pc' = "done"
    /\ req' = [NoReq EXCEPT !.route = "root"]
    /\ UNCHANGED <<codec, creds, hdrs, steps, cfg, aside, wire, k, out, calls, rets>>

(***************************************************************************)
(* HandleQuery up to its loop: 404 when neither query collaborator is set, *)
(* else the body is decoded.                                               *)
(***************************************************************************)
HandleQueryBegin(envs, frames) ==
    /\ pc = "idle"
    /\ \E w \in envs, f \in frames :
        /\ wire' = QueryBody(w, f)
        /\ http' = Post("/query")
        /\ IF "query" \notin cfg /\ "tableQuery" \notin cfg
           THEN /\ req' = [NoReq EXCEPT !.route = "query"]
                /\ steps' = <<>>
                /\ pc' = "done"
                /\ status' = 404
                /\ body' = ErrorBody(ErrNotFound)
                /\ writes' = <<ByError(ErrorBody(ErrNotFound))>>
           ELSE IF QueryDecodeError(QueryBody(w, f))
           THEN /\ req' = [NoReq EXCEPT !.route = "query"]
                /\ steps' = <<"decode">>
                /\ pc' = "done"
                /\ status' = 400
                /\ body' = ErrorBody(ErrDecode)
                /\ writes' = <<ByError(ErrorBody(ErrDecode))>>
           ELSE /\ req' = DecodeQuery(QueryBody(w, f))
                /\ steps' = <<"decode">>
                /\ pc' = "query"
                /\ status' = 0
                /\ body' = NoBody
                /\ writes' = <<>>
    /\ UNCHANGED <<codec, creds, hdrs, cfg, aside, k, out, calls, rets>>

\* The switch on target.Type in the loop of HandleQuery.
QueryKindLax(type) == IF type = "table" THEN "tableQuery" ELSE "query"

QueryKind(type) ==
    CASE type \in {"", "timeserie"} -> "query"
      [] type = "table" -> "tableQuery"
      [] OTHER -> "unknown"

\* out = append(out, res)
AppendResultFront(o, res) == <<res>> \o o

AppendResult(o, res) == Append(o, res)

\* A loop that goes on to the next target after an error.
AfterTargetSkipError(r) ==
    IF r.panic
    THEN /\ pc' = "panic"
         /\ UNCHANGED <<k, out, status, body, writes>>
    ELSE /\ pc' = "query"
         /\ k' = k + 1
         /\ out' = IF r.err # "" THEN out ELSE AppendResult(out, r.res)
         /\ UNCHANGED <<status, body, writes>>

\* The end of one turn of the loop over req.Targets: an error ends the
\* request with status 500, a panic ends it with no response, and a result
\* is appended to out.
AfterTarget(r) ==
    IF r.panic
    THEN /\ pc' = "panic"
         /\ UNCHANGED <<k, out, status, body, writes>>
    ELSE IF r.err # ""
         THEN /\ pc' = "done"
              /\ status' = 500
              /\ body' = ErrorBody(r.err)
              /\ writes' = Append(writes, ByError(ErrorBody(r.err)))
              /\ UNCHANGED <<k, out>>
         ELSE /\ pc' = "query"
              /\ k' = k + 1
              /\ out' = AppendResult(out, r.res)
              /\ UNCHANGED <<status, body, writes>>

\* A loop that passes over a target whose collaborator is not set.
NotImplementedSkip(msg) ==
    /\ k' = k + 1
    /\ UNCHANGED <<pc, out, status, body, writes, calls, rets>>

NotImplemented(msg) ==
    /\ pc' = "done"
    /\ status' = 400
    /\ body' = ErrorBody(msg)
    /\ writes' = Append(writes, ByError(ErrorBody(msg)))
    /\ UNCHANGED <<k, out, calls, rets>>

\* A call that puts the earlier boundary of the range first.
QuerierCallOrdered(r, target) ==
    [collab |-> "query", target |-> target.Target,
     args |-> [from |-> IF Before(r.To.inst, r.From.inst) THEN r.To ELSE r.From,
               to |-> IF Before(r.To.inst, r.From.inst) THEN r.From ELSE r.To,
               interval |-> r.Interval, maxDPs |-> r.MaxDataPoints,
               target |-> target.Target]]

\* The arguments of h.query.GrafanaQuery in jsonQuery and of
\* h.tableQuery.GrafanaQueryTable in jsonTableQuery, by parameter.
QuerierCall(r, target) ==
    [collab |-> "query", target |-> target.Target,
     args |-> [from |-> r.From, to |-> r.To, interval |-> r.Interval,
               maxDPs |-> r.MaxDataPoints, target |-> target.Target]]

TablerCall(r, target) ==
    [collab |-> "tableQuery", target |-> target.Target,
     args |-> [from |-> r.From, to |-> r.To, target |-> target.Target]]

\* One turn of the loop for a target of type "" or "timeserie".
QueryTimeserie(series) ==
    /\ pc = "query"
    /\ k < Len(req.Targets)
    /\ QueryKind(req.Targets[k + 1].Type) = "query"
    /\ IF "query" \notin cfg
       THEN NotImplemented(ErrNoQuerier)
       ELSE \E ret \in QuerierReturns(series) : \E sorted \in SortSlice(ret.dps) :
               /\ calls' = Append(calls, QuerierCall(req, req.Targets[k + 1]))
               /\ rets' = Append(rets, [collab |-> "query", err |-> ret.err, dps |-> ret.dps, cols |-> <<>>])
               /\ AfterTarget(jsonQuery(ret, req.Targets[k + 1], sorted))
    /\ UNCHANGED <<exchange, codec, cfg, aside, wire, req>>

\* One turn of the loop for a target of type "table".
QueryTable(tabs) ==
    /\ pc = "query"
    /\ k < Len(req.Targets)
    /\ QueryKind(req.Targets[k + 1].Type) = "tableQuery"
    /\ IF "tableQuery" \notin cfg
       THEN NotImplemented(ErrNoTabler)
       ELSE \E ret \in TablerReturns(tabs) :
               /\ calls' = Append(calls, TablerCall(req, req.Targets[k + 1]))
               /\ rets' = Append(rets, [collab |-> "tableQuery", err |-> ret.err, dps |-> <<>>, cols |-> ret.cols])
               /\ AfterTarget(jsonTableQuery(ret))
    /\ UNCHANGED <<exchange, codec, cfg, aside, wire, req>>

\* A loop that passes over a target of any other type.
QueryUnknownSkip ==
    /\ pc = "query"
    /\ k < Len(req.Targets)
    /\ QueryKind(req.Targets[k + 1].Type) = "unknown"
    /\ k' = k + 1
    /\ UNCHANGED <<exchange, codec, cfg, aside, pc, wire, req, out, calls, rets, status, body, writes>>

\* One turn of the loop for a target of any other type.
QueryUnknown ==
    /\ pc = "query"
    /\ k < Len(req.Targets)
    /\ QueryKind(req.Targets[k + 1].Type) = "unknown"
    /\ pc' = "done"
    /\ status' = 400
    /\ body' = ErrorBody(ErrUnknownType)
    /\ writes' = Append(writes, ByError(ErrorBody(ErrUnknownType)))
    /\ UNCHANGED <<exchange, codec, cfg, aside, wire, req, k, out, calls, rets>>

\* After the loop: out is marshalled and written (out is nil when nothing was
\* appended to it).
HandleQueryEnd ==
    /\ pc = "query"
    /\ k = Len(req.Targets)
    /\ pc' = "done"
    /\ status' = 200
    /\ body' = JSONBody(MarshalSlice(out = <<>>, [i \in 1..Len(out) |-> MarshalResult(out[i])]))
    /\ writes' = Append(writes, ByWrite(body'))
    /\ UNCHANGED <<exchange, codec, cfg, aside, wire, req, k, out, calls, rets>>

(***************************************************************************)
(* The handlers that answer in one step.  Each ends with one http.Error    *)
(* and a return, or with one Write.                                        *)
(***************************************************************************)
\* http.Error(w, msg, code); return
Fail(code, msg) ==
    /\ pc' = "done"
    /\ status' = code
    /\ body' = ErrorBody(msg)
    /\ writes' = <<ByError(ErrorBody(msg))>>

\* w.Write(bs), the status being the 200 of a first Write.
Succeed(b) ==
    /\ pc' = "done"
    /\ status' = 200
    /\ body' = b
    /\ writes' = <<ByWrite(b)>>

\* A collaborator error reported as a server error.
CollaboratorFailedServer(msg) == Fail(500, msg)

\* http.Error(w, err.Error(), http.StatusBadRequest) after the collaborator
\* of /annotations, /search, /tag-keys or /tag-values returned an error.
CollaboratorFailed(msg) == Fail(400, msg)

Methods == {"POST", "OPTIONS"}

AllowText == "Allow: POST,OPTIONS"

\* A decoder that takes any range for good.
DecodeErrorOfSyntax(w) == w.frame.json # "ok"

\* The envelope of /annotations has a range and no interval.
AnnotationsDecodeError(w) ==
    \/ w.frame.json # "ok"
    \/ TimeUnmarshal(w.frame.from).err
    \/ TimeUnmarshal(w.frame.to).err

DecodeAnnotations(w) ==
    [NoReq EXCEPT !.route = "annotations",
                  !.Annotation = w.annotation,
                  !.From = TimeUnmarshal(w.frame.from).t,
                  !.To = TimeUnmarshal(w.frame.to).t]

AnnotationsBody(q, f) == [NoWire EXCEPT !.annotation = q, !.frame = f]

\* The arguments of h.annotations.GrafanaAnnotations, by parameter.
AnnotatorCall(r) ==
    [collab |-> "annotations", target |-> r.Annotation,
     args |-> [from |-> r.From, to |-> r.To, query |-> r.Annotation]]

\* HandleAnnotations, the whole handler.
HandleAnnotations(frames) ==
    /\ pc = "idle"
    /\ \E q \in AnnotationQueries, method \in Methods, f \in frames :
        /\ wire' = AnnotationsBody(q, f)
        /\ http' = [method |-> method, path |-> "/annotations", auth |-> <<>>]
        /\ IF "annotations" \notin cfg
           THEN /\ req' = [NoReq EXCEPT !.route = "annotations"]
                /\ steps' = <<>>
                /\ Fail(400, ErrNotFound)
                /\ UNCHANGED <<calls, rets>>
           ELSE IF method = "OPTIONS"
           THEN /\ req' = [NoReq EXCEPT !.route = "annotations"]
                /\ steps' = <<>>
                /\ Succeed(TextBody(AllowText))
                /\ UNCHANGED <<calls, rets>>
           ELSE IF AnnotationsDecodeError(AnnotationsBody(q, f))
           THEN /\ req' = [NoReq EXCEPT !.route = "annotations"]
                /\ steps' = <<"decode">>
                /\ Fail(400, ErrDecode)
                /\ UNCHANGED <<calls, rets>>
           ELSE \E ret \in AnnotatorReturns :
                /\ req' = DecodeAnnotations(AnnotationsBody(q, f))
                /\ steps' = <<"decode">>
                /\ calls' = Append(calls, AnnotatorCall(DecodeAnnotations(AnnotationsBody(q, f))))
                /\ rets' = Append(rets, ret)
                /\ IF ret.err
                   THEN CollaboratorFailed(ErrCollaborator)
                   ELSE Succeed(JSONBody(MarshalAnnotations(ExpandAnnotations(q, ret.anns, 1, <<>>))))
    /\ UNCHANGED <<codec, creds, hdrs, cfg, aside, k, out>>

\* simpleJSONSearchQuery has a target and nothing else: the other fields of
\* the body are not decoded.
SearchDecodeError(w) == w.frame.json # "ok"

SearchBody(target, f) == [NoWire EXCEPT !.target = target, !.frame = f]

HandleSearch(frames) ==
    /\ pc = "idle"
    /\ \E target \in SearchTargets, f \in frames :
        /\ wire' = SearchBody(target, f)
        /\ http' = Post("/search")
        /\ IF "search" \notin cfg
           THEN /\ req' = [NoReq EXCEPT !.route = "search"]
                /\ steps' = <<>>
                /\ Fail(400, ErrNotFound)
                /\ UNCHANGED <<calls, rets>>
           ELSE IF SearchDecodeError(SearchBody(target, f))
           THEN /\ req' = [NoReq EXCEPT !.route = "search"]
                /\ steps' = <<"decode">>
                /\ Fail(400, ErrDecode)
                /\ UNCHANGED <<calls, rets>>
           ELSE \E ret \in SearchReturns :
                /\ req' = [NoReq EXCEPT !.route = "search", !.Target = target]
                /\ steps' = <<"decode">>
                /\ calls' = Append(calls, [collab |-> "search", target |-> target])
                /\ rets' = Append(rets, ret)
                /\ IF ret.err
                   THEN CollaboratorFailed(ErrCollaborator)
                   ELSE Succeed(JSONBody(MarshalSlice(ret.isNil, ret.vals)))
    /\ UNCHANGED <<codec, creds, hdrs, cfg, aside, k, out>>

\* simpleJSONTagKeysQuery is an empty struct.
TagKeysBody(f) == [NoWire EXCEPT !.frame = f]

\* allTags is nil until a tag is appended to it.
HandleTagKeys(frames) ==
    /\ pc = "idle"
    /\ \E f \in frames :
        /\ wire' = TagKeysBody(f)
        /\ http' = Post("/tag-keys")
        /\ IF "tags" \notin cfg
           THEN /\ req' = [NoReq EXCEPT !.route = "tag-keys"]
                /\ steps' = <<>>
                /\ Fail(400, ErrNotFound)
                /\ UNCHANGED <<calls, rets>>
           ELSE IF SearchDecodeError(TagKeysBody(f))
           THEN /\ req' = [NoReq EXCEPT !.route = "tag-keys"]
                /\ steps' = <<"decode">>
                /\ Fail(400, ErrDecode)
                /\ UNCHANGED <<calls, rets>>
           ELSE \E ret \in TagKeysReturns :
                /\ req' = [NoReq EXCEPT !.route = "tag-keys"]
                /\ steps' = <<"decode">>
                /\ calls' = Append(calls, [collab |-> "tagKeys", target |-> ""])
                /\ rets' = Append(rets, ret)
                /\ IF ret.err
                   THEN CollaboratorFailed(ErrCollaborator)
                   ELSE Succeed(JSONBody(MarshalSlice(ret.vals = <<>>,
                            [i \in 1..Len(ret.vals) |-> MarshalTagKey(ret.vals[i])])))
    /\ UNCHANGED <<codec, creds, hdrs, cfg, aside, k, out>>

TagValuesBody(key, f) == [NoWire EXCEPT !.key = key, !.frame = f]

\* allVals is nil until a value is appended to it.
HandleTagValues(frames) ==
    /\ pc = "idle"
    /\ \E key \in TagKeyNames, f \in frames :
        /\ wire' = TagValuesBody(key, f)
        /\ http' = Post("/tag-values")
        /\ IF "tags" \notin cfg
           THEN /\ req' = [NoReq EXCEPT !.route = "tag-values"]
                /\ steps' = <<>>
                /\ Fail(400, ErrNotFound)
                /\ UNCHANGED <<calls, rets>>
           ELSE IF SearchDecodeError(TagValuesBody(key, f))
           THEN /\ req' = [NoReq EXCEPT !.route = "tag-values"]
                /\ steps' = <<"decode">>
                /\ Fail(400, ErrDecode)
                /\ UNCHANGED <<calls, rets>>
           ELSE \E ret \in TagValuesReturns :
                /\ req' = [NoReq EXCEPT !.route = "tag-values", !.Key = key]
                /\ steps' = <<"decode">>
                /\ calls' = Append(calls, [collab |-> "tagValues", target |-> key])
                /\ rets' = Append(rets, ret)
                /\ IF ret.err
                   THEN CollaboratorFailed(ErrCollaborator)
                   ELSE Succeed(JSONBody(MarshalSlice(ret.vals = <<>>,
                            [i \in 1..Len(ret.vals) |-> MarshalTagValue(ret.vals[i])])))
    /\ UNCHANGED <<codec, creds, hdrs, cfg, aside, k, out>>

(***************************************************************************)
(* The SJC handlers (simplejson.go): one source with every collaborator,   *)
(* optional basic-auth credentials, and CORS headers.                      *)
(*                                                                         *)
(* An Authorization header is its words, one space between two of them.    *)
(* A word is a run of characters; a word that is base64 text is held as    *)
(* the bytes it encodes, so that decoding it yields them, and a word that  *)
(* is not base64 text ("Basic" is not: its length is not a multiple of 4)  *)
(* does not decode.                                                        *)
(***************************************************************************)
Word(text) == [b64 |-> FALSE, text |-> <<text>>]

\* base64.StdEncoding.EncodeToString
Base64(bytes) == [b64 |-> TRUE, text |-> bytes]

\* strings.SplitN(h, " ", 2): the first word and the rest of the header.
SplitHeader(h) == IF Len(h) < 2 THEN <<h>> ELSE <<<<h[1]>>, Tail(h)>>

\* base64.StdEncoding.DecodeString: a space is not a base64 character.
DecodeString(ws) ==
    IF Len(ws) = 1 /\ ws[1].b64
    THEN [err |-> FALSE, b |-> ws[1].text]
    ELSE [err |-> TRUE, b |-> <<>>]

Colons(b) == {i \in 1..Len(b) : b[i] = ":"}

FirstColon(b) == CHOOSE i \in Colons(b) : \A j \in Colons(b) : i <= j

\* strings.SplitN(string(b), ":", 2)
SplitPair(b) ==
    IF Colons(b) = {} THEN <<b>>
    ELSE <<SubSeq(b, 1, FirstColon(b) - 1), SubSeq(b, FirstColon(b) + 1, Len(b))>>

\* A check that is also made when only a password is configured.
checkAuthAnyPart(c, h) ==
    IF c.user = <<>> /\ c.pass = <<>> THEN TRUE
    ELSE IF Len(SplitHeader(h)) # 2 THEN FALSE
    ELSE IF DecodeString(SplitHeader(h)[2]).err THEN FALSE
    ELSE LET pair == SplitPair(DecodeString(SplitHeader(h)[2]).b)
         IN  Len(pair) = 2 /\ pair[1] = c.user /\ pair[2] = c.pass

\* SJC.checkAuth
checkAuth(c, h) ==
    IF c.user = <<>> THEN TRUE
    ELSE IF Len(SplitHeader(h)) # 2 THEN FALSE
    ELSE IF DecodeString(SplitHeader(h)[2]).err THEN FALSE
    ELSE LET pair == SplitPair(DecodeString(SplitHeader(h)[2]).b)
         IN  Len(pair) = 2 /\ pair[1] = c.user /\ pair[2] = c.pass

\* What WithGrafanaBasicAuth(user, pass) was given, if it was applied.
CredPairs ==
    { NoCreds,
      [user |-> <<"u">>, pass |-> <<"p">>],
      [user |-> <<"u">>, pass |-> <<"p", ":", "q">>],
      [user |-> <<>>, pass |-> <<"p">>] }

AuthHeaders ==
    { <<>>,
      <<Word("Basic"), Base64(<<"u", ":", "p">>)>>,
      <<Word("Basic"), Base64(<<"u", ":", "p", ":", "q">>)>>,
      <<Word("Basic"), Base64(<<"u", ":", "x">>)>>,
      <<Word("Basic"), Base64(<<"u", "p">>)>>,
      <<Word("Basic"), Word("u:p")>>,
      <<Word("Basic"), Base64(<<"u", ":", "p">>), Word("x")>>,
      <<Base64(<<"u", ":", "p">>)>>,
      <<Word("Bearer"), Base64(<<"u", ":", "p">>)>> }

\* addCORS
CORSHeaders ==
    { "Access-Control-Allow-Headers: accept, content-type",
      "Access-Control-Allow-Methods: POST",
      "Access-Control-Allow-Origin: *" }

Challenge == "WWW-Authenticate: Basic realm=\"logsray-reader\""

UnauthorizedText == "401 Unauthorized\n"

\* w.WriteHeader(401); w.Write([]byte("401 Unauthorized\n")); return
Unauthorized ==
    /\ pc' = "done"
    /\ status' = 401
    /\ body' = TextBody(UnauthorizedText)
    /\ writes' = <<ByWrite(TextBody(UnauthorizedText))>>

SJCCollaborators == {"query", "tableQuery", "annotations", "search"}

SJCInit ==
    /\ cfg = SJCCollaborators
    /\ creds \in CredPairs
    /\ codecIn = NoCodecIn
    /\ codecOut = NoCodecOut
    /\ Idle
    /\ Alone

SJCEnvelopes ==
    { <<>>,
      <<[target |-> "a", hasType |-> FALSE, type |-> "", refId |-> "A", hide |-> FALSE]>>,
      <<[target |-> "a", hasType |-> TRUE, type |-> "table", refId |-> "A", hide |-> FALSE]>>,
      <<[target |-> "a", hasType |-> TRUE, type |-> "bogus", refId |-> "A", hide |-> FALSE]>> }

SJCFrames == {GoodFrame, [GoodFrame EXCEPT !.json = "malformed"]}

\* SJC.HandleRoot: addCORS, and then as Handler.HandleRoot.
SJCHandleRoot ==
    /\ pc = "idle"
    /\ \E path \in Paths, h \in AuthHeaders :
        /\ http' = [method |-> "GET", path |-> path, auth |-> h]
        /\ status' = RootStatus(path)
        /\ body' = RootBody(path)
        /\ writes' = RootWrites(path)
    /\ hdrs' = CORSHeaders
    /\ steps' = <<"addCORS">>
    /\ pc' = "done"
    /\ req' = [NoReq EXCEPT !.route = "root"]
    /\ UNCHANGED <<codec, creds, cfg, aside, wire, k, out, calls, rets>>

\* SJC.HandleQuery up to its loop: checkAuth, addCORS, and the body is
\* decoded.  The loop is that of Handler.HandleQuery.
SJCHandleQueryBegin(envs, frames) ==
    /\ pc = "idle"
    /\ \E w \in envs, f \in frames, method \in Methods, h \in AuthHeaders :
        /\ wire' = QueryBody(w, f)
        /\ http' = [method |-> method, path |-> "/query", auth |-> h]
        /\ IF ~checkAuth(creds, h)
           THEN /\ req' = [NoReq EXCEPT !.route = "query"]
                /\ steps' = <<"checkAuth">>
                /\ hdrs' = {Challenge}
                /\ Unauthorized
           ELSE IF QueryDecodeError(QueryBody(w, f))
           THEN /\ req' = [NoReq EXCEPT !.route = "query"]
                /\ steps' = <<"checkAuth", "addCORS", "decode">>
                /\ hdrs' = CORSHeaders
                /\ Fail(400, ErrDecode)
           ELSE /\ req' = DecodeQuery(QueryBody(w, f))
                /\ steps' = <<"checkAuth", "addCORS", "decode">>
                /\ hdrs' = CORSHeaders
                /\ pc' = "query"
                /\ status' = 0
                /\ body' = NoBody
                /\ writes' = <<>>
    /\ UNCHANGED <<codec, creds, cfg, aside, k, out, calls, rets>>

\* SJC.HandleAnnotations: addCORS, the OPTIONS method, checkAuth, and then as
\* Handler.HandleAnnotations.
SJCHandleAnnotations(frames) ==
    /\ pc = "idle"
    /\ \E q \in AnnotationQueries, method \in Methods, f \in frames, h \in AuthHeaders :
        /\ wire' = AnnotationsBody(q, f)
        /\ http' = [method |-> method, path |-> "/annotations", auth |-> h]
        /\ IF method = "OPTIONS"
           THEN /\ req' = [NoReq EXCEPT !.route = "annotations"]
                /\ steps' = <<"addCORS">>
                /\ hdrs' = CORSHeaders
                /\ Succeed(TextBody(AllowText))
                /\ UNCHANGED <<calls, rets>>
           ELSE IF ~checkAuth(creds, h)
           THEN /\ req' = [NoReq EXCEPT !.route = "annotations"]
                /\ steps' = <<"addCORS", "checkAuth">>
                /\ hdrs' = CORSHeaders \cup {Challenge}
                /\ Unauthorized
                /\ UNCHANGED <<calls, rets>>
           ELSE IF AnnotationsDecodeError(AnnotationsBody(q, f))
           THEN /\ req' = [NoReq EXCEPT !.route = "annotations"]
                /\ steps' = <<"addCORS", "checkAuth", "decode">>
                /\ hdrs' = CORSHeaders
                /\ Fail(400, ErrDecode)
                /\ UNCHANGED <<calls, rets>>
           ELSE \E ret \in AnnotatorReturns :
                /\ req' = DecodeAnnotations(AnnotationsBody(q, f))
                /\ steps' = <<"addCORS", "checkAuth", "decode">>
                /\ hdrs' = CORSHeaders
                /\ calls' = Append(calls, AnnotatorCall(DecodeAnnotations(AnnotationsBody(q, f))))
                /\ rets' = Append(rets, ret)
                /\ IF ret.err
                   THEN CollaboratorFailed(ErrCollaborator)
                   ELSE Succeed(JSONBody(MarshalAnnotations(ExpandAnnotations(q, ret.anns, 1, <<>>))))
    /\ UNCHANGED <<codec, creds, cfg, aside, k, out>>

\* SJC.HandleSearch: checkAuth, addCORS, and then as Handler.HandleSearch.
SJCHandleSearch(frames) ==
    /\ pc = "idle"
    /\ \E target \in SearchTargets, method \in Methods, f \in frames, h \in AuthHeaders :
        /\ wire' = SearchBody(target, f)
        /\ http' = [method |-> method, path |-> "/search", auth |-> h]
        /\ IF ~checkAuth(creds, h)
           THEN /\ req' = [NoReq EXCEPT !.route = "search"]
                /\ steps' = <<"checkAuth">>
                /\ hdrs' = {Challenge}
                /\ Unauthorized
                /\ UNCHANGED <<calls, rets>>
           ELSE IF SearchDecodeError(SearchBody(target, f))
           THEN /\ req' = [NoReq EXCEPT !.route = "search"]
                /\ steps' = <<"checkAuth", "addCORS", "decode">>
                /\ hdrs' = CORSHeaders
                /\ Fail(400, ErrDecode)
                /\ UNCHANGED <<calls, rets>>
           ELSE \E ret \in SearchReturns :
                /\ req' = [NoReq EXCEPT !.route = "search", !.Target = target]
                /\ steps' = <<"checkAuth", "addCORS", "decode">>
                /\ hdrs' = CORSHeaders
                /\ calls' = Append(calls, [collab |-> "search", target |-> target])
                /\ rets' = Append(rets, ret)
                /\ IF ret.err
                   THEN CollaboratorFailed(ErrCollaborator)
                   ELSE Succeed(JSONBody(MarshalSlice(ret.isNil, ret.vals)))
    /\ UNCHANGED <<codec, creds, cfg, aside, k, out>>

(***************************************************************************)
(* The codecs on their own: a value is encoded and the encoding decoded,   *)
(* or a duration string is decoded.                                        *)
(***************************************************************************)
CodecInstants == {n * 250000 : n \in (0 - CodecSpan)..CodecSpan} \cup {FarFuture}

\* Zones: UTC, whole hours east and west, and a zone whose offset has a part
\* below a minute, as the local mean times of the zone database have.
ZoneOffsets == {0, 3600, 0 - 18000, 61}

DurationStrings ==
    { <<"3", "0", "s">>, <<"1", "m">>, <<"5", "h">>, <<"1", "h", "3", "0", "m">>,
      <<"1", "5", "m", "s">>, <<"0">>, <<"-", "1", "s">>, <<"+", "1", "s">>,
      <<"1", ".", "5", "s">>, <<".", "5", "s">>, <<"1", ".", "s">>, <<"1", ".", "5", "m">>,
      <<>>, <<"s">>, <<".", "s">>, <<"3", "0">>, <<"1", "x">>, <<"1", "s", "x">>, <<"-">> }

CodecInputs ==
    {[NoCodecIn EXCEPT !.codec = "PTime", !.t = UTC(t)] : t \in CodecInstants}
        \cup {[NoCodecIn EXCEPT !.codec = "Time", !.t = [inst |-> t, off |-> o]] :
                 t \in CodecInstants \ {FarFuture}, o \in ZoneOffsets}
        \cup {[NoCodecIn EXCEPT !.codec = "Duration", !.s = s] : s \in DurationStrings}

CodecInit ==
    /\ cfg = Collaborators
    /\ creds = NoCreds
    /\ codecIn \in CodecInputs
    /\ codecOut = NoCodecOut
    /\ Idle
    /\ Alone

\* simpleJSONPTime: MarshalJSON and then UnmarshalJSON.
PTimeRoundTrip ==
    /\ codecIn.codec = "PTime"
    /\ ~codecOut.done
    /\ codecOut' = [NoCodecOut EXCEPT !.done = TRUE,
                                      !.t = UTC(PTimeUnmarshal(PTimeMarshal(codecIn.t.inst)))]
    /\ UNCHANGED <<exchange, writes, cfg, aside, pc, wire, req, k, out, calls, rets, status, body, codecIn>>

\* simpleJSONTime: MarshalJSON and then UnmarshalJSON.
TimeRoundTrip ==
    /\ codecIn.codec = "Time"
    /\ ~codecOut.done
    /\ codecOut' = [NoCodecOut EXCEPT !.done = TRUE,
                                      !.err = TimeUnmarshal(TimeMarshal(codecIn.t)).err,
                                      !.t = TimeUnmarshal(TimeMarshal(codecIn.t)).t]
    /\ UNCHANGED <<exchange, writes, cfg, aside, pc, wire, req, k, out, calls, rets, status, body, codecIn>>

\* simpleJSONDuration.UnmarshalJSON of a JSON string.
DurationDecode ==
    /\ codecIn.codec = "Duration"
    /\ ~codecOut.done
    /\ codecOut' = [NoCodecOut EXCEPT !.done = TRUE,
                                      !.err = DurationUnmarshal(JString(codecIn.s)).err,
                                      !.d = DurationUnmarshal(JString(codecIn.s)).d]
    /\ UNCHANGED <<exchange, writes, cfg, aside, pc, wire, req, k, out, calls, rets, status, body, codecIn>>

(***************************************************************************)
(* The specifications.  Spec is the Handler with every envelope and a few  *)
(* collaborator results; SpecSeries and SpecTable are one timeserie or one *)
(* table target with every collaborator result within the bounds; SpecSJC  *)
(* is the SJC with its credentials and request headers; SpecCodec is the   *)
(* codecs on their own.                                                    *)
(***************************************************************************)
FewEnvelopes ==
    { <<>>,
      <<[target |-> "a", hasType |-> FALSE, type |-> "", refId |-> "A", hide |-> FALSE]>>,
      <<[target |-> "b", hasType |-> TRUE, type |-> "table", refId |-> "A", hide |-> FALSE]>> }

AnnotationFrames == {GoodFrame, ReversedFrame} \cup BadFrames

Next ==
    \/ HandleRoot
    \/ HandleQueryBegin(Envelopes, {GoodFrame})
    \/ HandleQueryBegin(FewEnvelopes, QueryFrames \ {GoodFrame})
    \/ QueryTimeserie(FewSeries)
    \/ QueryTable(FewTables)
    \/ QueryUnknown
    \/ HandleQueryEnd
    \/ HandleAnnotations(AnnotationFrames)
    \/ HandleSearch(AnnotationFrames)
    \/ HandleTagKeys(AnnotationFrames)
    \/ HandleTagValues(AnnotationFrames)

Spec == Init /\ [][Next]_vars

NextSeries ==
    \/ HandleQueryBegin(SeriesEnvelopes, {GoodFrame})
    \/ QueryTimeserie(AllSeries)
    \/ HandleQueryEnd

SpecSeries == InitWith({Collaborators}) /\ [][NextSeries]_vars

NextTable ==
    \/ HandleQueryBegin(TableEnvelopes, {GoodFrame})
    \/ QueryTable(AllTables)
    \/ HandleQueryEnd

SpecTable == InitWith({Collaborators}) /\ [][NextTable]_vars

NextSJC ==
    \/ SJCHandleRoot
    \/ SJCHandleQueryBegin(SJCEnvelopes, SJCFrames)
    \/ QueryTimeserie(FewSeries)
    \/ QueryTable(FewTables)
    \/ QueryUnknown
    \/ HandleQueryEnd
    \/ SJCHandleAnnotations(SJCFrames)
    \/ SJCHandleSearch(SJCFrames)

SpecSJC == SJCInit /\ [][NextSJC]_vars

NextCodec ==
    \/ PTimeRoundTrip
    \/ TimeRoundTrip
    \/ DurationDecode

SpecCodec == CodecInit /\ [][NextCodec]_vars

(***************************************************************************)
(* Two /query requests served one after the other by a Handler with every  *)
(* collaborator: the mux hands each request to HandleQuery, whose req, out  *)
(* and response are new for every request.  The first request is kept in   *)
(* twin.  The targets are shown or hidden, the envelopes are those of two   *)
(* panels, and the series has no two points at one instant, so that        *)
(* sort.Slice leaves it in one order only.                                 *)
(***************************************************************************)
TwinTargets ==
    {w \in WireTargets \cup HiddenTargets : w.target = "a" /\ (~w.hasType \/ w.type = "table")}

TwinEnvelopes == UNION {[1..m -> TwinTargets] : m \in 0..2}

TwinFrames == {GoodFrame, PanelFrame}

TwinSeries == {<<[Time |-> 1999999, Value |-> 1], [Time |-> 0 - 1500000, Value |-> 2]>>}

TwinTables ==
    {<<[Text |-> "p", Data |-> [kind |-> "time", vals |-> <<1500000>>]],
       [Text |-> "q", Data |-> [kind |-> "number", vals |-> <<1>>]]>>}

\* The handler returned and the mux takes the next request.
ServeNext ==
    /\ pc = "done"
    /\ req.route = "query"
    /\ ~twin.seen
    /\ twin' = [seen |-> TRUE, wire |-> wire, calls |-> calls, rets |-> rets,
                status |-> status, body |-> body]
    /\ pc' = "idle"
    /\ wire' = NoWire
    /\ req' = NoReq
    /\ k' = 0
    /\ out' = <<>>
    /\ calls' = <<>>
    /\ rets' = <<>>
    /\ status' = 0
    /\ body' = NoBody
    /\ http' = NoHTTP
    /\ hdrs' = {}
    /\ steps' = <<>>
    /\ writes' = <<>>
    /\ UNCHANGED <<cfg, creds, codec, duo>>

NextTwin ==
    \/ HandleQueryBegin(TwinEnvelopes, TwinFrames)
    \/ QueryTimeserie(TwinSeries)
    \/ QueryTable(TwinTables)
    \/ HandleQueryEnd
    \/ ServeNext

SpecTwin == InitWith({Collaborators}) /\ [][NextTwin]_vars

(***************************************************************************)
(* Two /query requests, each with one timeserie target, served at the same *)
(* time by one Handler (net/http runs every request in a goroutine of its  *)
(* own).  A request is the steps of HandleQuery and jsonQuery on its own   *)
(* req, out and response; resp is the slice the Querier returned, which is  *)
(* backed by the Querier's own array when the Querier returns the series   *)
(* it keeps, and by a new array when it builds the series for each call.   *)
(* sort.Slice sorts resp in place: for fewer than 12 elements it is an     *)
(* insertion sort, one less(j, j-1) and one swap at a time, and a swap is  *)
(* three moves through a temporary.  The steps of the two requests         *)
(* interleave in every order.                                              *)
(***************************************************************************)
Requests == {1, 2}

NoPoint == [Time |-> 0, Value |-> 0]

\* The series the Querier holds: out of order, no two points at one instant.
DuoSeries ==
    { <<[Time |-> 1999999, Value |-> 1], [Time |-> 0 - 1500000, Value |-> 2]>>,
      <<[Time |-> 1999999, Value |-> 1], [Time |-> 1500000, Value |-> 2],
        [Time |-> 0 - 1500000, Value |-> 3]>> }

\* A request that has not come in.
NoRequest ==
    [pc |-> "idle", target |-> "", ref |-> 0, i |-> 0, j |-> 0, tmp |-> NoPoint, idx |-> 0,
     outp |-> <<>>, wrote |-> FALSE, status |-> 0, body |-> NoBody]

\* heap[0] is the array of the Querier, heap[r] the array made for request r.
DuoInit ==
    /\ cfg = Collaborators
    /\ creds = NoCreds
    /\ codecIn = NoCodecIn
    /\ codecOut = NoCodecOut
    /\ Idle
    /\ twin = NoTwin
    /\ \E s \in DuoSeries, sh \in BOOLEAN :
          duo = [on |-> TRUE, shared |-> sh, orig |-> s,
                 heap |-> [r \in {0} \cup Requests |-> s],
                 th |-> [r \in Requests |-> NoRequest]]

\* The handlers' own state, which two requests at the same time leave alone.
DuoFrame ==
    UNCHANGED <<cfg, pc, wire, req, k, out, calls, rets, status, body, exchange, writes,
                codec, twin>>

\* resp of request r.
Resp(r) == duo.heap[duo.th[r].ref]

\* HandleQuery up to the loop: the request decodes its own envelope.
DuoBegin(r) ==
    /\ duo.th[r].pc = "idle"
    /\ "query" \in cfg
    /\ \E target \in TargetNames :
          duo' = [duo EXCEPT !.th[r].pc = "call", !.th[r].target = target]
    /\ DuoFrame

\* resp, err := h.query.GrafanaQuery(...): the Querier's array, or a new one
\* with the same points.
DuoCall(r) ==
    /\ duo.th[r].pc = "call"
    /\ duo' = [duo EXCEPT !.th[r].pc = "less",
                          !.th[r].ref = IF duo.shared THEN 0 ELSE r,
                          !.th[r].i = 2,
                          !.th[r].j = 2]
    /\ DuoFrame

\* for i := a + 1; i < b; i++ { for j := i; j > a && less(j, j-1); j-- {
DuoLess(r) ==
    /\ duo.th[r].pc = "less"
    /\ LET th == duo.th[r]
       IN  IF th.i > Len(Resp(r))
           THEN duo' = [duo EXCEPT !.th[r].pc = "encode", !.th[r].idx = 1]
           ELSE IF th.j > 1 /\ Before(Resp(r)[th.j].Time, Resp(r)[th.j - 1].Time)
           THEN duo' = [duo EXCEPT !.th[r].pc = "swap1"]
           ELSE duo' = [duo EXCEPT !.th[r].i = th.i + 1, !.th[r].j = th.i + 1]
    /\ DuoFrame

\* data.Swap(j, j-1): tmp = resp[j]; resp[j] = resp[j-1]; resp[j-1] = tmp
DuoSwap(r) ==
    /\ LET th == duo.th[r]
       IN  \/ /\ th.pc = "swap1"
              /\ duo' = [duo EXCEPT !.th[r].pc = "swap2", !.th[r].tmp = Resp(r)[th.j]]
           \/ /\ th.pc = "swap2"
              /\ duo' = [duo EXCEPT !.th[r].pc = "swap3", !.th[r].wrote = TRUE,
                                    !.heap[th.ref][th.j] = Resp(r)[th.j - 1]]
           \/ /\ th.pc = "swap3"
              /\ duo' = [duo EXCEPT !.th[r].pc = "less", !.th[r].j = th.j - 1,
                                    !.heap[th.ref][th.j - 1] = th.tmp]
    /\ DuoFrame

\* for _, v := range resp { out.DataPoints = append(out.DataPoints, ...) },
\* and after it the end of HandleQuery: out is marshalled and written.
DuoEncode(r) ==
    /\ duo.th[r].pc = "encode"
    /\ LET th == duo.th[r]
       IN  IF th.idx <= Len(Resp(r))
           THEN duo' = [duo EXCEPT !.th[r].idx = th.idx + 1,
                                   !.th[r].outp = Append(th.outp, Resp(r)[th.idx])]
           ELSE duo' = [duo EXCEPT
                   !.th[r].pc = "done",
                   !.th[r].status = 200,
                   !.th[r].body = JSONBody(MarshalSlice(FALSE,
                       <<MarshalResult([kind |-> "data", Target |-> th.target,
                                        DataPoints |-> th.outp])>>))]
    /\ DuoFrame

NextDuo ==
    \E r \in Requests :
        \/ DuoBegin(r)
        \/ DuoCall(r)
        \/ DuoLess(r)
        \/ DuoSwap(r)
        \/ DuoEncode(r)

SpecDuo == DuoInit /\ [][NextDuo]_vars

(***************************************************************************)
(* Properties.  A request is over when pc is "done" (a response was        *)
(* written) or "panic" (the handler panicked and wrote nothing).           *)
(***************************************************************************)
Over == pc \in {"done", "panic"}

QueryOK == pc = "done" /\ req.route = "query" /\ status = 200

Entries == body.json.elems

\* The time component of every datapoint of entry e is non-decreasing.
NonDecreasing(e) ==
    \A i, j \in 1..Len(e.datapoints.elems) :
        i < j => e.datapoints.elems[i][2] <= e.datapoints.elems[j][2]

RepresentableTimes(dps) == \A i \in 1..Len(dps) : dps[i].Time \in MinNano..MaxNano

\* C1: for every sequence of datapoints the Query collaborator returns, the
\* datapoints array jsonQuery encodes is non-decreasing in its millisecond
\* time component.
C1_EncodedNonDecreasing ==
    QueryOK => \A e \in 1..Len(Entries) : NonDecreasing(Entries[e])

\* The same for the sequences whose instants UnixNano represents (not wrapped).
C1_NonDecreasingWhenRepresentable ==
    (QueryOK /\ \A e \in 1..Len(rets) : RepresentableTimes(rets[e].dps))
        => \A e \in 1..Len(Entries) : NonDecreasing(Entries[e])

C1_Witness ==
    /\ QueryOK
    /\ Len(rets) = 1
    /\ Len(rets[1].dps) = 3
    /\ RepresentableTimes(rets[1].dps)
    /\ Before(rets[1].dps[3].Time, rets[1].dps[1].Time)
    /\ rets[1].dps[1].Time = rets[1].dps[2].Time

(***************************************************************************)
(* The dispatcher.                                                         *)
(***************************************************************************)
\* Entry e of the response is what target t of the envelope was answered with:
\* a timeserie entry carries the target's name and as many points as the
\* collaborator returned for it, a table entry as many columns.
EntryOf(e, t) ==
    IF QueryKind(req.Targets[t].Type) = "tableQuery"
    THEN /\ rets[t].collab = "tableQuery"
         /\ "type" \in DOMAIN Entries[e]
         /\ Entries[e].type = "table"
         /\ Len(Entries[e].columns.elems) = Len(rets[t].cols)
         /\ \A c \in 1..Len(rets[t].cols) :
               Entries[e].columns.elems[c].text = rets[t].cols[c].Text
    ELSE /\ rets[t].collab = "query"
         /\ "target" \in DOMAIN Entries[e]
         /\ Entries[e].target = wire.targets[t].target
         /\ Len(Entries[e].datapoints.elems) = Len(rets[t].dps)
         /\ {Entries[e].datapoints.elems[i][1] : i \in 1..Len(rets[t].dps)}
               = {rets[t].dps[i].Value : i \in 1..Len(rets[t].dps)}

\* C2: when HandleQuery succeeds for an envelope with n targets, the response
\* has exactly n entries and entry k is the encoding of target k's result, in
\* the input order of the targets.
C2_EntriesInTargetOrder ==
    QueryOK =>
        /\ Len(Entries) = Len(wire.targets)
        /\ Len(rets) = Len(wire.targets)
        /\ \A t \in 1..Len(wire.targets) : EntryOf(t, t)

C2_Witness ==
    /\ QueryOK
    /\ Len(wire.targets) = 2
    /\ wire.targets[1].type = "table"
    /\ wire.targets[2].type = "timeserie"
    /\ wire.targets[1].target # wire.targets[2].target
    /\ Len(rets[2].dps) = 2

\* The kind of a target as it is on the wire.
WireKind(w) ==
    IF ~w.hasType \/ w.type = "" \/ w.type = "timeserie" THEN "query"
    ELSE IF w.type = "table" THEN "tableQuery" ELSE "none"

\* C3: a target whose type is absent, empty or "timeserie" is sent to the
\* Query collaborator and only to it, a target whose type is "table" to the
\* TableQuery collaborator and only to it, and a target of any other type to
\* no collaborator.  Call t of a request is the call made for target t.
C3_RoutedByKind ==
    req.route = "query" =>
        /\ Len(calls) <= Len(wire.targets)
        /\ Len(calls) \in {k, k + 1}
        /\ \A t \in 1..Len(calls) :
              /\ calls[t].collab = WireKind(wire.targets[t])
              /\ calls[t].target = wire.targets[t].target
        /\ (QueryOK => Len(calls) = Len(wire.targets))

C3_Witness ==
    /\ QueryOK
    /\ Len(calls) = 2
    /\ ~wire.targets[1].hasType
    /\ calls[1].collab = "query"
    /\ wire.targets[2].type = "table"
    /\ calls[2].collab = "tableQuery"

BadTargets == {t \in 1..Len(wire.targets) : WireKind(wire.targets[t]) = "none"}

FirstBad == CHOOSE t \in BadTargets : \A u \in BadTargets : t <= u

\* The call made for target t returned no error, and for a table its columns
\* were encoded.
Answered(t) ==
    /\ t <= Len(rets)
    /\ ~rets[t].err
    /\ rets[t].collab = "tableQuery" =>
          LET r == jsonTableQuery([err |-> FALSE, cols |-> rets[t].cols])
          IN  r.err = "" /\ ~r.panic

C5_CollaboratorErrorIs500 ==
    (req.route = "query" /\ \E t \in 1..Len(rets) : rets[t].err) =>
        /\ pc = "done"
        /\ status = 500
        /\ body = ErrorBody(ErrCollaborator)
        /\ Entries = <<>>

C5_Witness ==
    /\ pc = "done"
    /\ req.route = "query"
    /\ Len(rets) = 2
    /\ ~rets[1].err
    /\ rets[2].err
    /\ out # <<>>
    /\ status = 500

(***************************************************************************)
(* The table encoder (SpecTable: one table target).                        *)
(***************************************************************************)
TableOver == Over /\ req.route = "query" /\ Len(rets) = 1 /\ ~rets[1].err

Cols == rets[1].cols

Typed(c) == c.Data.kind \in {"number", "string", "time"}

ColLen(c) == Len(c.Data.vals)

EqualLengths(cols) == \A i, j \in 1..Len(cols) : ColLen(cols[i]) = ColLen(cols[j])

\* C6: rowCount is the length of the first column, and for every list of
\* columns in which a later column's length differs from the first column's
\* (a first column of length 0 followed by a non-empty one included)
\* jsonTableQuery fails with the length-mismatch error and produces no table.
C6_LengthMismatchFails ==
    (/\ TableOver
     /\ \A j \in 1..Len(Cols) : Typed(Cols[j])
     /\ \E j \in 2..Len(Cols) : ColLen(Cols[j]) # ColLen(Cols[1]))
        => /\ pc = "done"
           /\ body = ErrorBody(ErrColumnLength)
           /\ Entries = <<>>

\* C7 as stated: jsonTableQuery fails with the invalid-column-type error
\* whenever any column's data is not a NumberColumn, StringColumn or
\* TimeColumn, and HandleQuery reports it as status 500.
C7_InvalidColumnFails ==
    (TableOver /\ \E j \in 1..Len(Cols) : ~Typed(Cols[j]))
        => /\ status = 500
           /\ body = ErrorBody(ErrInvalidColumn)

FirstInvalid(cols) ==
    CHOOSE j \in 1..Len(cols) : ~Typed(cols[j]) /\ \A i \in 1..(j - 1) : Typed(cols[i])

\* C7 as amended: with such a column jsonTableQuery always fails and returns
\* no table, and HandleQuery reports status 500; the error is the
\* invalid-column-type error when the columns before the first such column
\* have equal lengths, and otherwise it is that error or the length-mismatch
\* error.
C7_InvalidColumnFailsOneWay ==
    (TableOver /\ \E j \in 1..Len(Cols) : ~Typed(Cols[j]))
        => /\ pc = "done"
           /\ status = 500
           /\ Entries = <<>>
           /\ body \in {ErrorBody(ErrInvalidColumn), ErrorBody(ErrColumnLength)}
           /\ EqualLengths(SubSeq(Cols, 1, FirstInvalid(Cols) - 1))
                 => body = ErrorBody(ErrInvalidColumn)

C7_Witness ==
    /\ TableOver
    /\ Len(Cols) = 3
    /\ Typed(Cols[1]) /\ Typed(Cols[2]) /\ ~Typed(Cols[3])
    /\ ColLen(Cols[1]) = 1 /\ ColLen(Cols[2]) = 2
    /\ status = 500
    /\ body = ErrorBody(ErrColumnLength)

\* The instant an RFC3339 string with nanoseconds stands for.
ParseRFC3339(v) == v.sec * NanosPerSecond + v.nsec

\* Cell j of row i of the wire table t is value i of column c.
CellOf(t, i, j, c) ==
    LET cell == t.rows.elems[i].elems[j]
    IN  IF c.Data.kind = "time"
        THEN /\ cell.j = "string"
             /\ cell.v.fmt = "rfc3339"
             /\ ParseRFC3339(cell.v) = c.Data.vals[i]
        ELSE /\ cell.j = c.Data.kind
             /\ cell.v = c.Data.vals[i]

\* C8: when jsonTableQuery succeeds on columns c_0..c_{m-1} of common length
\* r, the wire table has type "table", header j is the label and kind tag of
\* c_j, and there are exactly r rows of m cells, row i cell j being
\* c_j.values[i]; a time cell is the RFC3339 string, not milliseconds.
C8_TableEncoded ==
    (TableOver /\ status = 200) =>
        LET t == Entries[1]
            m == Len(Cols)
            r == IF m = 0 THEN 0 ELSE ColLen(Cols[1])
        IN  /\ EqualLengths(Cols)
            /\ t.type = "table"
            /\ Len(t.columns.elems) = m
            /\ \A j \in 1..m :
                  t.columns.elems[j] = [text |-> Cols[j].Text, type |-> Cols[j].Data.kind]
            /\ t.rows.j = "array"
            /\ Len(t.rows.elems) = r
            /\ \A i \in 1..r :
                  /\ Len(t.rows.elems[i].elems) = m
                  /\ \A j \in 1..m : CellOf(t, i, j, Cols[j])

C8_Witness ==
    /\ TableOver
    /\ status = 200
    /\ Len(Cols) = 3
    /\ ColLen(Cols[1]) = 2
    /\ Cols[1].Data.kind = "time"
    /\ Cols[2].Data.kind = "number"
    /\ Cols[3].Data.kind = "string"
    /\ Cols[1].Text # Cols[2].Text

(***************************************************************************)
(* The annotation expander.                                                *)
(***************************************************************************)
\* The Annotate collaborator was invoked and its result encoded.
AnnotationsOK == pc = "done" /\ req.route = "annotations" /\ status = 200 /\ Len(rets) = 1

Anns == rets[1].anns

IsRegion(a) == a.TimeEnd # ZeroTime

\* The place in the response of the first record of annotation i (from 1).
RecordOf(i) == i + Cardinality({j \in 1..(i - 1) : IsRegion(Anns[j])})

SameAnnotation(rec, a) ==
    /\ rec.title = a.Title
    /\ rec.text = a.Text
    /\ rec.tags = a.Tags
    /\ rec.annotation = req.Annotation

\* C9: annotations are expanded in returned order; one with end unset yields
\* exactly one record with no regionId, one with end set yields exactly two
\* consecutive records, the first with time = start and the second with
\* time = end, both with the same title, text and tags; n annotations of
\* which k are regions yield n + k records.
C9_AnnotationsExpanded ==
    AnnotationsOK =>
        /\ body.json.j = "array"
        /\ Len(Entries) = Len(Anns) + Cardinality({j \in 1..Len(Anns) : IsRegion(Anns[j])})
        /\ \A i \in 1..Len(Anns) :
              /\ SameAnnotation(Entries[RecordOf(i)], Anns[i])
              /\ Entries[RecordOf(i)].time = Anns[i].Time \div NanosPerMilli
              /\ IF IsRegion(Anns[i])
                 THEN /\ SameAnnotation(Entries[RecordOf(i) + 1], Anns[i])
                      /\ Entries[RecordOf(i) + 1].time = Anns[i].TimeEnd \div NanosPerMilli
                 ELSE Entries[RecordOf(i)].regionId = <<>>

C9_Witness ==
    /\ AnnotationsOK
    /\ Len(Anns) = 2
    /\ IsRegion(Anns[1])
    /\ ~IsRegion(Anns[2])
    /\ Anns[1].Title # Anns[2].Title
    /\ Len(Entries) = 3

\* C10: for every region annotation at zero-based index i of the
\* collaborator's result, for every i >= 0, both of its wire records carry
\* the field regionId with value i.
C10_RegionIdIsIndex ==
    AnnotationsOK =>
        \A i \in 1..Len(Anns) :
            IsRegion(Anns[i]) =>
                /\ Entries[RecordOf(i)].regionId = <<i - 1>>
                /\ Entries[RecordOf(i) + 1].regionId = <<i - 1>>

\* The same for the regions at an index above 0.
C10_RegionIdIsIndexAboveZero ==
    AnnotationsOK =>
        \A i \in 2..Len(Anns) :
            IsRegion(Anns[i]) =>
                /\ Entries[RecordOf(i)].regionId = <<i - 1>>
                /\ Entries[RecordOf(i) + 1].regionId = <<i - 1>>

(***************************************************************************)
(* Status codes, credentials, headers and the outcome of a request.        *)
(***************************************************************************)
Taken(step) == \E i \in 1..Len(steps) : steps[i] = step

Failed == \E t \in 1..Len(rets) : rets[t].err

\* C11: a collaborator error is reported with status 400 by
\* HandleAnnotations, HandleSearch, HandleTagKeys and HandleTagValues, and
\* with status 500 by HandleQuery.
C11_CollaboratorErrorStatus ==
    Failed =>
        /\ pc = "done"
        /\ req.route \in {"query", "annotations", "search", "tag-keys", "tag-values"}
        /\ status = IF req.route = "query" THEN 500 ELSE 400
        /\ body = ErrorBody(ErrCollaborator)

C11_Witness ==
    /\ pc = "done"
    /\ req.route = "tag-values"
    /\ Len(rets) = 1
    /\ rets[1].err
    /\ status = 400

\* The header Basic base64(user:pass) of a credential pair.
BasicHeader(c) == <<Word("Basic"), Base64(c.user \o <<":">> \o c.pass)>>

Guarded == pc # "idle" /\ req.route \in {"query", "annotations", "search"} /\ http.method # "OPTIONS"

Refused ==
    /\ pc = "done"
    /\ status = 401
    /\ Challenge \in hdrs
    /\ ~Taken("decode")
    /\ calls = <<>>

\* C12: with a credential pair configured (here one with a user name), every
\* non-OPTIONS request to /query, /annotations or /search whose Authorization
\* header is not Basic base64(user:pass) receives status 401 with a
\* WWW-Authenticate header, before the body is decoded and without any
\* collaborator being invoked.
C12_UnmatchedIs401 ==
    (Guarded /\ creds.user # <<>> /\ http.auth # BasicHeader(creds)) => Refused

\* The same for the headers that are not two words of which the second is
\* base64(user:pass).
C12_WrongPairIs401 ==
    (/\ Guarded
     /\ creds.user # <<>>
     /\ ~(Len(http.auth) = 2 /\ http.auth[2] = BasicHeader(creds)[2])) => Refused

\* C13: every response of every endpoint, the 401, 400, 404 and 500 error
\* responses included, carries the three CORS headers.
C13_CORSOnEveryResponse ==
    (Over /\ writes # <<>>) => CORSHeaders \subseteq hdrs

\* The same for the responses other than the 401 of /query and /search.
C13_CORSUnlessRefused ==
    (Over /\ writes # <<>> /\ ~(status = 401 /\ req.route \in {"query", "search"}))
        => CORSHeaders \subseteq hdrs

OptionsToAnnotations == pc # "idle" /\ req.route = "annotations" /\ http.method = "OPTIONS"

\* C14: an OPTIONS request to /annotations is answered with an Allow header,
\* without any credential check, without decoding the body and without
\* invoking the Annotate collaborator.
C14_OptionsAnsweredWithAllowHeader ==
    OptionsToAnnotations =>
        /\ \E h \in hdrs : h = AllowText
        /\ ~Taken("checkAuth")
        /\ ~Taken("decode")
        /\ calls = <<>>

\* What holds of that request: it is answered at once, with the text
\* "Allow: POST,OPTIONS" as its body and no header other than the CORS ones.
C14_OptionsAnsweredInBody ==
    OptionsToAnnotations =>
        /\ pc = "done"
        /\ status = 200
        /\ body = TextBody(AllowText)
        /\ hdrs = CORSHeaders
        /\ ~Taken("checkAuth")
        /\ ~Taken("decode")
        /\ calls = <<>>

\* C15: HandleRoot answers a request for path "/" with status 200 and body
\* OK, and a request for any other path with status 404.
C15_RootStatus ==
    (pc # "idle" /\ req.route = "root") =>
        /\ pc = "done"
        /\ IF http.path = "/"
           THEN status = 200 /\ body = TextBody("OK")
           ELSE status = 404

C15_Witness ==
    /\ pc = "done"
    /\ req.route = "root"
    /\ http.path = "/favicon.ico"
    /\ status = 404

\* C16: every request to any handler ends with exactly one outcome, one
\* success body or one error status with exactly one error body, and once an
\* error has been written nothing further is written to the response.
C16_ExactlyOneOutcome ==
    Over =>
        /\ Len(writes) = 1
        /\ writes[1].via = "http.Error" <=> status # 200
        /\ \A i, j \in 1..Len(writes) : (i < j) => writes[i].via # "http.Error"

\* The same for the requests that do not end in a panic, HandleRoot's excepted.
C16_OneOutcomeUnlessRootOrPanic ==
    (pc = "done" /\ req.route # "root") =>
        /\ Len(writes) = 1
        /\ writes[1].via = "http.Error" <=> status # 200

(***************************************************************************)
(* Decoding the body.                                                      *)
(***************************************************************************)
BadTime(js) == js.j # "string" \/ js.v.fmt # "rfc3339"

BadInterval(js) == js.j # "string" \/ ParseDuration(js.v).err

\* The body of the request does not decode into the handler's envelope:
\* its JSON is malformed, or a range time or the interval of an envelope that
\* has one does not parse.
Undecodable ==
    \/ wire.frame.json # "ok"
    \/ req.route \in {"query", "annotations"} /\ (BadTime(wire.frame.from) \/ BadTime(wire.frame.to))
    \/ req.route = "query" /\ BadInterval(wire.frame.interval)

BodyReading == req.route \in {"query", "annotations", "search", "tag-keys", "tag-values"}

\* C17 as stated: a request whose body fails to decode is answered with
\* status 400 by every body-reading handler, and no collaborator is invoked.
C17_DecodeErrorIs400 ==
    (pc # "idle" /\ BodyReading /\ Undecodable) =>
        /\ pc = "done"
        /\ status = 400
        /\ calls = <<>>

\* The handler reads the body: its collaborator is set (for /query, one of
\* the two), and the request is not an OPTIONS request to /annotations.
ReadsBody ==
    CASE req.route = "query" -> cfg \cap {"query", "tableQuery"} # {}
      [] req.route = "annotations" -> "annotations" \in cfg /\ http.method # "OPTIONS"
      [] req.route = "search" -> "search" \in cfg
      [] req.route \in {"tag-keys", "tag-values"} -> "tags" \in cfg
      [] OTHER -> FALSE

\* C17 as amended: such a request never has a collaborator invoked, and it is
\* answered with status 400 and the decode error by every handler that reads
\* the body; a handler whose collaborator is not set answers before that
\* (404 for /query, 400 for the others), as does /annotations to OPTIONS.
C17_DecodeErrorIs400WhenRead ==
    (pc # "idle" /\ BodyReading /\ Undecodable) =>
        /\ pc = "done"
        /\ calls = <<>>
        /\ Taken("decode") <=> ReadsBody
        /\ ReadsBody => (status = 400 /\ body = ErrorBody(ErrDecode))
        /\ ~ReadsBody => status = IF req.route = "query" THEN 404
                                  ELSE IF "annotations" \in cfg /\ req.route = "annotations" THEN 200
                                  ELSE 400

C17_Witness ==
    /\ pc = "done"
    /\ req.route = "annotations"
    /\ wire.frame.json = "ok"
    /\ BadTime(wire.frame.to)
    /\ Taken("decode")
    /\ status = 400

(***************************************************************************)
(* The codecs.                                                             *)
(***************************************************************************)
\* time.Time.Truncate(time.Millisecond): down to a whole millisecond.
TruncateToMillis(t) == t - (t % NanosPerMilli)

Decoded(c) == codecIn.codec = c /\ codecOut.done

\* C18: for any timestamp t, the instants before the epoch that have a
\* sub-millisecond part included, decoding the PointTime encoding of t
\* yields t truncated to whole milliseconds.
C18_PointTimeRoundTrip ==
    Decoded("PTime") => codecOut.t.inst = TruncateToMillis(codecIn.t.inst)

\* The same for the instants from the epoch on that UnixNano represents, and
\* for those before the epoch that are whole milliseconds.
C18_RoundTripOfRepresentable ==
    (/\ Decoded("PTime")
     /\ codecIn.t.inst \in MinNano..MaxNano
     /\ codecIn.t.inst >= 0 \/ codecIn.t.inst % NanosPerMilli = 0)
        => codecOut.t.inst = TruncateToMillis(codecIn.t.inst)

\* C19: for any timestamp t, decoding the RangeTime encoding of t yields the
\* same instant t, to the nanosecond.
C19_RangeTimeRoundTrip ==
    Decoded("Time") => (~codecOut.err /\ codecOut.t.inst = codecIn.t.inst)

\* The same for the timestamps whose zone offset is in whole minutes.
C19_RoundTripOfWholeMinuteZones ==
    (Decoded("Time") /\ codecIn.t.off % 60 = 0)
        => (~codecOut.err /\ codecOut.t.inst = codecIn.t.inst)

Fractional(js) == js.j = "string" /\ \E i \in 1..Len(js.v) : js.v[i] = "."

\* C20: the duration codec decodes an interval made of a numeric magnitude
\* and a unit suffix, and rejects one whose magnitude is fractional, so that
\* a query envelope with such an interval is answered with a decode error.
C20_FractionalIntervalRejected ==
    /\ (pc # "idle" /\ req.route = "query" /\ Taken("decode") /\ Fractional(wire.frame.interval))
          => (pc = "done" /\ status = 400 /\ calls = <<>>)
    /\ (Decoded("Duration") /\ \E i \in 1..Len(codecIn.s) : codecIn.s[i] = ".") => codecOut.err

\* The intervals of a whole magnitude and a unit s, m or h decode to the
\* magnitude times the unit (in milliseconds).
C20_WholeMagnitudesDecode ==
    Decoded("Duration") =>
        /\ codecIn.s = <<"3", "0", "s">> => (~codecOut.err /\ codecOut.d = 30 * 1000)
        /\ codecIn.s = <<"1", "m">> => (~codecOut.err /\ codecOut.d = 60 * 1000)
        /\ codecIn.s = <<"5", "h">> => (~codecOut.err /\ codecOut.d = 5 * 3600 * 1000)
        /\ codecIn.s = <<"1", "h", "3", "0", "m">> => (~codecOut.err /\ codecOut.d = 90 * 60 * 1000)
        /\ codecIn.s \in {<<>>, <<"s">>, <<"3", "0">>, <<"1", "x">>} => codecOut.err

(***************************************************************************)
(* C21..C30.                                                               *)
(***************************************************************************)
Answered200(route) == pc = "done" /\ req.route = route /\ status = 200 /\ Len(rets) = 1

CapabilityOf(collab) == IF collab \in {"tagKeys", "tagValues"} THEN "tags" ELSE collab

\* The capability that a route asks for before it reads the request.
RouteCapability(route) ==
    CASE route = "annotations" -> "annotations"
      [] route = "search" -> "search"
      [] route \in {"tag-keys", "tag-values"} -> "tags"
      [] OTHER -> "none"

\* The request ended with the error text msg under status code, and no
\* JSON was written.
EndedWith(code, msg) ==
    /\ pc = "done"
    /\ status = code
    /\ body = ErrorBody(msg)
    /\ writes = <<ByError(ErrorBody(msg))>>

\* C23: whatever subset of the collaborators is configured, a handler never
\* invokes a collaborator that is not configured: the route, or the query
\* target kind, whose capability is absent is answered with an error
\* response (Not Found for a route, "... query not implemented" for a target
\* kind) and no success body.
C23_AbsentCapabilityRefused ==
    /\ \A i \in 1..Len(calls) : CapabilityOf(calls[i].collab) \in cfg
    /\ (pc # "idle" /\ RouteCapability(req.route) # "none" /\ RouteCapability(req.route) \notin cfg)
          => (EndedWith(400, ErrNotFound) /\ calls = <<>>)
    /\ (pc # "idle" /\ req.route = "query" /\ "query" \notin cfg /\ "tableQuery" \notin cfg)
          => (EndedWith(404, ErrNotFound) /\ calls = <<>>)
    /\ (pc = "done" /\ req.route = "query" /\ k < Len(req.Targets)
            /\ QueryKind(req.Targets[k + 1].Type) # "unknown"
            /\ QueryKind(req.Targets[k + 1].Type) \notin cfg)
          => /\ EndedWith(400, IF QueryKind(req.Targets[k + 1].Type) = "query"
                              THEN ErrNoQuerier ELSE ErrNoTabler)
             /\ Len(calls) = k
    /\ QueryOK => \A t \in 1..Len(req.Targets) : QueryKind(req.Targets[t].Type) \in cfg

C23_Witness ==
    /\ cfg = {"query", "search"}
    /\ req.route = "query"
    /\ Len(req.Targets) = 2
    /\ k = 1
    /\ Len(calls) = 1
    /\ req.Targets[2].Type = "table"
    /\ EndedWith(400, ErrNoTabler)


\* The decoded envelope has adhoc filters and a collaborator was called for
\* one of its targets.
FiltersSent ==
    /\ req.route = "query"
    /\ req.AdhocFilters # <<>>
    /\ calls # <<>>

\* C24: for each target of a query envelope, the adhoc filters decoded from
\* the envelope are passed to the Query or TableQuery collaborator call
\* made for that target.
C24_FiltersPassed ==
    req.route = "query" =>
        \A i \in 1..Len(calls) :
            /\ "filters" \in DOMAIN calls[i].args
            /\ calls[i].args.filters = req.AdhocFilters

\* What the calls are passed instead: the arguments of GrafanaQuery and of
\* GrafanaQueryTable have no place for the filters.
C24_FiltersDecodedAndDropped ==
    req.route = "query" =>
        /\ (pc # "idle" /\ Taken("decode") /\ status # 400) => req.AdhocFilters = wire.frame.adhocFilters
        /\ \A i \in 1..Len(calls) :
              DOMAIN calls[i].args =
                  IF calls[i].collab = "query"
                  THEN {"from", "to", "interval", "maxDPs", "target"}
                  ELSE {"from", "to", "target"}


\* The range of the request body as simpleJSONTime decodes it.
WireFrom == TimeUnmarshal(wire.frame.from).t

WireTo == TimeUnmarshal(wire.frame.to).t

\* The request was read and its body decodes.
Decodable == pc = "done" /\ Taken("decode") /\ ~Undecodable

\* C25: HandleQuery and HandleAnnotations pass the decoded range boundaries
\* from and to (and, for a timeseries target, the interval and
\* maxDataPoints) to the collaborator unchanged and in that position; the
\* range is not validated, swapped or rejected, also when from is later than
\* to.
C25_RangePassedUnchanged ==
    /\ req.route \in {"query", "annotations"} =>
          \A i \in 1..Len(calls) :
              /\ calls[i].args.from = WireFrom
              /\ calls[i].args.to = WireTo
              /\ calls[i].collab = "query" =>
                    /\ calls[i].args.interval = DurationUnmarshal(wire.frame.interval).d
                    /\ calls[i].args.maxDPs = wire.frame.maxDataPoints
    /\ (Decodable /\ req.route = "annotations") => Len(calls) = 1
    /\ (Decodable /\ req.route = "query" /\ wire.targets # <<>>
            /\ WireKind(wire.targets[1]) \in cfg) => Len(calls) >= 1

\* A timeseries call and an annotations call with a range whose from is
\* later than its to.
C25_Witness ==
    /\ Decodable
    /\ req.route = "query"
    /\ status = 200
    /\ Len(calls) = 1
    /\ calls[1].collab = "query"
    /\ calls[1].args.from = UTC(3000000)
    /\ calls[1].args.to = UTC(1000000)
    /\ calls[1].args.interval = 30 * 1000
    /\ calls[1].args.maxDPs = 550

C25_WitnessAnnotations ==
    /\ Decodable
    /\ req.route = "annotations"
    /\ status = 200
    /\ calls[1].args.from = UTC(3000000)
    /\ calls[1].args.to = UTC(1000000)


JSONRoutes == {"query", "annotations", "search", "tag-keys", "tag-values"}

\* The request was answered with a JSON success body.
AnsweredJSON ==
    /\ pc = "done"
    /\ req.route \in JSONRoutes
    /\ status = 200
    /\ body.ctype = "application/json"

\* C26: the success body of /query, /annotations, /search, /tag-keys and
\* /tag-values is always a JSON array, also in the empty cases (zero targets,
\* zero annotations, keys or values), and so is the datapoints field of a
\* timeseries entry with zero datapoints: an empty array, never null.
C26_SuccessBodyIsArray ==
    AnsweredJSON =>
        /\ body.json.j = "array"
        /\ req.route = "query" =>
              \A i \in 1..Len(Entries) :
                  "datapoints" \in DOMAIN Entries[i] => Entries[i].datapoints.j = "array"

\* What holds: /annotations always answers an array, and the other bodies
\* and the datapoints field are arrays when they have an element and null
\* when the slice they are marshalled from was never appended to.
C26_ArrayUnlessNothingAppended ==
    AnsweredJSON =>
        /\ req.route = "annotations" => body.json.j = "array"
        /\ req.route = "query" =>
              /\ body.json.j = (IF req.Targets = <<>> THEN "null" ELSE "array")
              /\ \A i \in 1..Len(Entries) :
                    "datapoints" \in DOMAIN Entries[i] =>
                        Entries[i].datapoints.j = (IF rets[i].dps = <<>> THEN "null" ELSE "array")
        /\ req.route \in {"tag-keys", "tag-values"} =>
              body.json.j = (IF rets[1].vals = <<>> THEN "null" ELSE "array")
        /\ req.route = "search" => body.json.j = (IF rets[1].isNil THEN "null" ELSE "array")


\* The encoded pairs e are the points dps taken in the order p, each value
\* with the encoded time of its own point.
PermutedBy(p, e, dps) ==
    \A i \in 1..Len(dps) :
        /\ e[i][1] = dps[p[i]].Value
        /\ e[i][2] = PTimeMarshal(dps[p[i]].Time)

\* C27: the datapoints jsonQuery encodes are a permutation of the points the
\* collaborator returned: as many, none dropped or duplicated, and each value
\* still paired with its time.
C27_EncodedIsPermutation ==
    QueryOK =>
        \A t \in 1..Len(Entries) :
            rets[t].collab = "query" =>
                /\ Len(Entries[t].datapoints.elems) = Len(rets[t].dps)
                /\ \E p \in Perms(Len(rets[t].dps)) :
                      PermutedBy(p, Entries[t].datapoints.elems, rets[t].dps)

\* Three points returned out of order, two of them at one instant with
\* different values.
C27_Witness ==
    /\ QueryOK
    /\ Len(rets) = 1
    /\ rets[1].dps = <<[Time |-> 1999999, Value |-> 1], [Time |-> 0 - 1500000, Value |-> 2],
                       [Time |-> 1999999, Value |-> 2]>>
    /\ Entries[1].datapoints.elems = <<<<2, 0 - 1>>, <<2, 1>>, <<1, 1>>>>


\* The calls and results of a /query request so far: call t was made for
\* target t, targets 1..k were answered without an error, and a call beyond
\* them is the one that ended the request.
InTargetOrder ==
    /\ Len(calls) \in {k, k + 1}
    /\ Len(calls) <= Len(req.Targets)
    /\ Len(out) = k
    /\ \A t \in 1..Len(calls) :
          /\ calls[t].target = req.Targets[t].Target
          /\ calls[t].collab = QueryKind(req.Targets[t].Type)
    /\ \A t \in 1..k : ~rets[t].err
    /\ Len(calls) = k + 1 => (pc \in {"done", "panic"} /\ status # 200)
    /\ (pc = "done" /\ status # 200) => Len(calls) <= k + 1

\* One step of a /query request makes at most one call, for the target after
\* the k that were answered, and never takes a call back.
OneCallAtATime ==
    \/ calls' = calls
    \/ /\ pc = "query"
       /\ Len(calls) = k
       /\ Len(calls') = k + 1
       /\ SubSeq(calls', 1, k) = calls
       /\ calls'[k + 1].target = req.Targets[k + 1].Target

\* C28: HandleQuery invokes the collaborators one at a time in the order of
\* the targets: the collaborator of target k only after targets 0..k-1 were
\* dispatched successfully, and none after the first target that fails or
\* has an unknown kind.
C28_CallsInTargetOrder ==
    /\ [](req.route = "query" => InTargetOrder)
    /\ [][req.route = "query" => OneCallAtATime]_vars

\* The first of two targets failed: one call, and none for the second.
C28_Witness ==
    /\ pc = "done"
    /\ req.route = "query"
    /\ Len(req.Targets) = 2
    /\ QueryKind(req.Targets[2].Type) \in cfg
    /\ Len(calls) = 1
    /\ rets[1].err
    /\ status = 500

\* The second of two targets was called after the first was answered.
C28_WitnessSecond ==
    /\ pc = "done"
    /\ req.route = "query"
    /\ Len(calls) = 2
    /\ calls[1].target = "b"
    /\ calls[2].target = "a"
    /\ status = 200


\* C29: in the versions with basic auth, checkAuth enforces authentication
\* if and only if the configured user name is not empty: with an empty user
\* name every request is accepted, whatever the password and the header, and
\* with a user name a request without an Authorization header is always
\* rejected.
C29_EnforcedIffUserNamed ==
    /\ status = 401 => creds.user # <<>>
    /\ (Guarded /\ creds.user = <<>>) => Taken("decode")
    /\ (Guarded /\ creds.user # <<>> /\ http.auth = <<>>) => Refused

\* A password without a user name, and a header that matches nothing: the
\* request is served.
C29_Witness ==
    /\ Guarded
    /\ creds = [user |-> <<>>, pass |-> <<"p">>]
    /\ http.auth = <<Word("Basic"), Base64(<<"u", ":", "x">>)>>
    /\ pc = "done"
    /\ status = 200
    /\ calls # <<>>

\* A user name, and no header: the request is refused.
C29_WitnessRefused ==
    /\ Guarded
    /\ creds.user = <<"u">>
    /\ http.auth = <<>>
    /\ Refused


\* What is left of a /query body without the hide flags and refIds of its
\* targets and without its panelId, format, intervalMs and rangeRaw.
Visible(w) ==
    [targets |-> [i \in 1..Len(w.targets) |->
                     [target |-> w.targets[i].target, hasType |-> w.targets[i].hasType,
                      type |-> w.targets[i].type]],
     json |-> w.frame.json, from |-> w.frame.from, to |-> w.frame.to,
     interval |-> w.frame.interval, maxDataPoints |-> w.frame.maxDataPoints,
     adhocFilters |-> w.frame.adhocFilters]

\* The collaborators answered equal calls of the two requests equally.
SameAnswers ==
    \A i \in 1..Len(calls), j \in 1..Len(twin.calls) :
        calls[i] = twin.calls[j] => rets[i] = twin.rets[j]

\* This request and the one before it are over and differ at most in the
\* fields that Visible leaves out.
TwinsOver ==
    /\ pc = "done"
    /\ req.route = "query"
    /\ twin.seen
    /\ Visible(wire) = Visible(twin.wire)

\* C30: two /query envelopes that differ only in the hide flags and refIds of
\* their targets, or in panelId, format, intervalMs or rangeRaw, produce the
\* same sequence of collaborator calls and the same response; a target with
\* hide = true is still queried and still gets its entry.
C30_HiddenFieldsIgnored ==
    /\ (TwinsOver /\ SameAnswers) =>
          /\ calls = twin.calls
          /\ status = twin.status
          /\ body = twin.body
    /\ QueryOK =>
          /\ Len(calls) = Len(wire.targets)
          /\ Len(Entries) = Len(wire.targets)
          /\ \A t \in 1..Len(wire.targets) : calls[t].target = wire.targets[t].target

\* A hidden target of another panel after the same target shown: two calls
\* and two entries each time.
C30_Witness ==
    /\ TwinsOver
    /\ SameAnswers
    /\ Len(wire.targets) = 2
    /\ wire.targets[1].hide /\ wire.targets[1].refId = "B"
    /\ ~twin.wire.targets[1].hide /\ twin.wire.targets[1].refId = "A"
    /\ wire.frame = PanelFrame
    /\ twin.wire.frame = GoodFrame
    /\ status = 200
    /\ Len(calls) = 2
    /\ Len(Entries) = 2


\* The response of a request for target to a Handler that serves it alone.
AloneBody(target) ==
    JSONBody(MarshalSlice(FALSE,
        <<MarshalResult([kind |-> "data", Target |-> target,
                         DataPoints |-> CHOOSE s \in SortSlice(duo.orig) : TRUE])>>))

\* Request r has stored into an array that request u holds as its resp.
WritesInto(r, u) ==
    /\ duo.th[r].wrote
    /\ duo.th[u].pc \notin {"idle", "call"}
    /\ duo.th[r].ref = duo.th[u].ref

\* Every request that is over was answered as it is when served alone.
AnsweredAsAlone ==
    \A r \in Requests :
        duo.th[r].pc = "done" =>
            (duo.th[r].status = 200 /\ duo.th[r].body = AloneBody(duo.th[r].target))

\* C22: for every interleaving of two requests served at the same time by
\* one handler, no request writes state that the other can read (the
\* datapoint sequence that jsonQuery sorts after the collaborator returned it
\* included), and the response of each equals its response when served alone.
C22_RequestsIsolated ==
    /\ \A r, u \in Requests : r # u => ~WritesInto(r, u)
    /\ AnsweredAsAlone

\* What holds: the requests are isolated when the Querier returns a slice of
\* its own to every call.
C22_IsolatedWithOwnSlices ==
    ~duo.shared =>
        /\ \A r, u \in Requests : r # u => ~WritesInto(r, u)
        /\ AnsweredAsAlone

\* The configuration is not written after New.
C22_ConfigurationFixed == [][cfg' = cfg /\ creds' = creds]_vars


====
